---------------------------- MODULE Spec2Model ----------------------------
(***************************************************************************)
(* A model of the discovery-and-extraction pipeline of                     *)
(* src/app/api/collect/route.ts: the bounded site crawler                  *)
(* (crawlProductUrls), the search-form probe (checkSearchFormAvailability) *)
(* and the search-result collector (collectSearchFormProducts).            *)
(*                                                                         *)
(* Strings are sequences of one-character strings, so that trimming,       *)
(* lower-casing, whitespace stripping and substring search are computed    *)
(* as the code computes them.  A URL is a record of its host, its path     *)
(* (with the query) and its fragment.                                      *)
(***************************************************************************)
EXTENDS Integers, Sequences, FiniteSets, TLC

(***************************************************************************)
(* Bounds of the model.                                                    *)
(***************************************************************************)
\* the number of links the pages of one crawled site expose in total
MaxSiteLinks == 5
\* the length of the keyword list checkSearchFormAvailability is called with
MaxSearchKeywords == 2
\* the number of items the oracle answers with
MaxOracleItems == 2
\* the rows of the seed file of the batch driver
MaxRows == 2
\* the responses the pages of one keyword emit
MaxResponses == 3

(***************************************************************************)
(* Program constants.                                                      *)
(***************************************************************************)
MAX_CRAWL_PAGES == 5
MAX_CRAWL_DEPTH == 2
\* `addedCategoryUrls < 5`
MaxCategoryUrls == 5
\* `Array.from(urls).slice(0, 3)`
MaxUrlsPerKeyword == 3
\* `collected.slice(0, 10)`
MaxItems == 10
\* the retries of a failed request in the batch driver (its default)
MAX_RETRY == 2

(***************************************************************************)
(* Strings.                                                                *)
(***************************************************************************)
\* null: a record, so that it compares with the records that stand for
\* objects and URLs
Null == [null |-> TRUE]

UpperChars ==
  <<"A", "B", "C", "D", "E", "F", "G", "H", "I", "J", "K", "L", "M",
    "N", "O", "P", "Q", "R", "S", "T", "U", "V", "W", "X", "Y", "Z">>

LowerChars ==
  <<"a", "b", "c", "d", "e", "f", "g", "h", "i", "j", "k", "l", "m",
    "n", "o", "p", "q", "r", "s", "t", "u", "v", "w", "x", "y", "z">>

\* the lower-case letter of every upper-case letter
LowerTable ==
  [c \in { UpperChars[i] : i \in 1..Len(UpperChars) } |->
     LowerChars[CHOOSE i \in 1..Len(UpperChars) : UpperChars[i] = c]]

\* String.prototype.toLowerCase, on one character
LowerChar(c) == IF c \in DOMAIN LowerTable THEN LowerTable[c] ELSE c

toLowerCase(s) == [i \in 1..Len(s) |-> LowerChar(s[i])]

IsSpace(c) == c = " "

\* s.replace(/\s+/g, "")
StripWs(s) == SelectSeq(s, LAMBDA c : ~IsSpace(c))

\* String.prototype.trim
RECURSIVE TrimLeft(_)
TrimLeft(s) ==
  IF s /= <<>> /\ IsSpace(Head(s)) THEN TrimLeft(Tail(s)) ELSE s

RECURSIVE TrimRight(_)
TrimRight(s) ==
  IF s /= <<>> /\ IsSpace(s[Len(s)])
    THEN TrimRight(SubSeq(s, 1, Len(s) - 1))
    ELSE s

trim(s) == TrimRight(TrimLeft(s))

\* String.prototype.includes
includes(s, t) ==
  \E i \in 0..(Len(s) - Len(t)) : SubSeq(s, i + 1, i + Len(t)) = t

\* String.prototype.endsWith
endsWith(s, t) ==
  Len(t) <= Len(s) /\ SubSeq(s, Len(s) - Len(t) + 1, Len(s)) = t

\* s.split(/\s+/).map(t => t.trim()).filter(Boolean): the non-empty
\* whitespace-separated tokens of s, in order
RECURSIVE SplitWs(_, _, _)
SplitWs(s, cur, acc) ==
  IF s = <<>>
    THEN IF cur = <<>> THEN acc ELSE Append(acc, cur)
    ELSE IF IsSpace(Head(s))
      THEN SplitWs(Tail(s), <<>>, IF cur = <<>> THEN acc ELSE Append(acc, cur))
      ELSE SplitWs(Tail(s), Append(cur, Head(s)), acc)

Tokens(s) == SplitWs(s, <<>>, <<>>)

\* Array.from(new Set(list)): the first occurrence of each value, in order
RECURSIVE Dedup(_, _)
Dedup(list, acc) ==
  IF list = <<>> THEN acc
  ELSE Dedup(Tail(list),
             IF \E i \in 1..Len(acc) : acc[i] = Head(list)
               THEN acc ELSE Append(acc, Head(list)))

(***************************************************************************)
(* URLs.  kind "abs" is an absolute URL, "rel" a path relative to the      *)
(* base, "bad" a string `new URL` rejects.                                 *)
(***************************************************************************)
Url(kind, host, path, frag) ==
  [kind |-> kind, host |-> host, path |-> path, frag |-> frag]

BadUrl == Url("bad", <<>>, <<>>, <<>>)

\* URL.prototype.toString
UrlString(u) ==
  <<"/", "/">> \o u.host \o u.path
    \o (IF u.frag = <<>> THEN <<>> ELSE <<"#">> \o u.frag)

\* normalizeUrl: resolve against the base, drop the fragment; null when the
\* target does not parse
normalizeUrl(baseUrl, target) ==
  IF target.kind = "bad" THEN Null
  ELSE Url("abs",
           IF target.kind = "rel" THEN baseUrl.host ELSE target.host,
           target.path, <<>>)

\* isSameOriginOrSubdomain; equal origins have equal hosts
isSameOriginOrSubdomain(baseUrl, target) ==
  IF target.kind = "bad" THEN FALSE
  ELSE LET targetHost == IF target.kind = "rel" THEN baseUrl.host
                                                  ELSE target.host
       IN \/ targetHost = baseUrl.host
          \/ endsWith(targetHost, <<".">> \o baseUrl.host)

(***************************************************************************)
(* LinkScorer.                                                             *)
(***************************************************************************)
ProductUrlMarkers ==
  << <<"/","p","r","o","d","u","c","t">>,
     <<"/","p","r","o","d","u","c","t","s">>,
     <<"/","i","t","e","m">>,
     <<"/","g","o","o","d","s">>,
     <<"/","d","e","t","a","i","l">>,
     <<"/","c","a","t","e","g","o","r","y">>,
     <<"/","c","a","t","e","g","o","r","i","e","s">>,
     <<"/","s","h","o","p">>,
     <<"/","s","t","o","r","e">>,
     <<"/","m","a","l","l">>,
     <<"p","r","o","d","u","c","t","_","i","d","=">>,
     <<"g","o","o","d","s","_","i","d","=">>,
     <<"i","t","e","m","_","i","d","=">>,
     <<"c","a","t","e","_","n","o","=">>,
     <<"c","a","t","e","g","o","r","y","=">>,
     <<"c","a","t","e","g","o","r","y","_","n","o","=">>,
     <<"g","o","o","d","s","n","o","=">> >>

scoreProductUrl(url) ==
  LET lower == toLowerCase(url)
  IN Len(SelectSeq(ProductUrlMarkers, LAMBDA key : includes(lower, key)))

\* the token-sum branch shared by scoreKeywordMatch and scoreKeywordText
TokenScore(hayLower, keyword) ==
  Len(SelectSeq(Tokens(toLowerCase(keyword)),
                LAMBDA token : Len(token) >= 2 /\ includes(hayLower, token)))

scoreKeywordMatch(url, keyword) ==
  LET normalized == StripWs(toLowerCase(keyword))
      urlLower == toLowerCase(url)
  IN IF normalized = <<>> THEN 0
     ELSE IF includes(urlLower, normalized) THEN 3
     ELSE TokenScore(urlLower, keyword)

scoreKeywordText(text, keyword) ==
  LET normalized == StripWs(toLowerCase(keyword))
      textLower == toLowerCase(text)
  IN IF normalized = <<>> THEN 0
     ELSE IF includes(textLower, normalized) THEN 4
     ELSE TokenScore(textLower, keyword)

(***************************************************************************)
(* The crawled site.  A page exposes a set of the links below, in this     *)
(* order; which ones is chosen when the page is loaded (a page is loaded   *)
(* at most once per crawl).                                                *)
(***************************************************************************)
SiteHost == <<"s">>

\* the keyword of the crawl
CrawlKeyword == <<"k", "w", " ", "z", "z">>

Link(href, text) == [href |-> href, text |-> text]

SiteLinks ==
  << Link(Url("rel", <<>>, <<"/", "a">>, <<>>), <<"K", "W", "z", "z">>),
     Link(Url("rel", <<>>, <<"/", "a">>, <<"f">>), <<"K", "W">>),
     Link(Url("rel", <<>>, <<"/", "i", "t", "e", "m">>, <<>>), <<>>),
     Link(Url("rel", <<>>, <<"/", "c", "a", "t", "e", "g", "o", "r", "y">>, <<>>), <<>>),
     Link(Url("rel", <<>>, <<"/", "k", "w">>, <<>>), <<>>),
     Link(Url("abs", <<"x">>, <<"/", "i", "t", "e", "m">>, <<>>), <<>>),
     Link(Url("abs", <<"m", ".", "s">>, <<"/", "b">>, <<>>), <<>>),
     Link(BadUrl, <<"k", "w">>) >>

\* the link lists a page can expose with `left` links of the site unseen
PageLinks(left) ==
  { SelectSeq(SiteLinks, LAMBDA l : \E i \in S : SiteLinks[i] = l) :
      S \in { T \in SUBSET (1..Len(SiteLinks)) : Cardinality(T) <= left } }

\* the start URLs crawlProductUrls is called with
StartUrls ==
  { Url("abs", SiteHost, <<"/">>, <<>>),
    Url("rel", <<>>, <<"/">>, <<>>),
    BadUrl }

\* url.searchParams.set(name, searchKeyword) on the form's action
SearchUrlOf(action, name, searchKeyword) ==
  Url("abs", action.host, action.path \o <<"?">> \o name \o <<"=">> \o searchKeyword,
      action.frag)

\* the resolved action URLs of the search form a start page can hold
FormActions ==
  { Url("abs", SiteHost, <<"/", "s">>, <<>>),
    Url("abs", <<"x">>, <<"/", "s">>, <<>>) }

(***************************************************************************)
(* checkSearchFormAvailability: the pages it reads.                        *)
(*                                                                         *)
(* What document.querySelector finds on a page is its DOM kind: no search  *)
(* input, an input outside any form, a form whose method is not GET, a     *)
(* form whose action does not parse, or a usable GET form.  id is the id   *)
(* attribute of the matched input and clickKind the kind the page takes    *)
(* once the element with that id was clicked.                              *)
(***************************************************************************)
Dom(kind, id, clickKind) == [kind |-> kind, id |-> id, clickKind |-> clickKind]

DomOk == Dom("ok", <<>>, "ok")
DomNoInput == Dom("no_input", <<>>, "no_input")

HomeDoms ==
  { DomNoInput,
    Dom("no_form", <<>>, "no_form"),
    Dom("no_form", <<"i">>, "no_form"),
    Dom("no_form", <<"i">>, "ok"),
    Dom("no_form", <<" ", "i">>, "ok"),
    Dom("not_get", <<>>, "not_get"),
    Dom("bad_action", <<>>, "bad_action"),
    DomOk }

\* the DOM of every search-result page of the site
ResultDoms == { DomOk, DomNoInput }

HomepageUrl == Url("abs", SiteHost, <<"/">>, <<>>)

\* the resolved action of the site's search form and the name of its input
SearchAction == Url("abs", SiteHost, <<"/", "s">>, <<>>)
SearchInputName == <<"q">>

\* the empty string where the code holds a URL string
EmptyUrl == Url("empty", <<>>, <<>>, <<>>)

\* the keywords a caller passes: blank, padded and repeated ones included
KeywordChoices == { <<"a">>, <<" ", "a">>, <<"B">>, <<" ">> }

KeywordLists ==
  UNION { [1..n -> KeywordChoices] : n \in 0..MaxSearchKeywords }

ProductName == <<"P">>

\* document.body.textContent of a search-result page
BodyTexts ==
  { <<>>,
    <<"x", " ", "p">>,
    <<"$", "1">>,
    <<"P", " ", "$", " ", "1">>,
    <<"A", "b">> }

IsDigit(c) == c \in {"0", "1", "2", "3", "4", "5", "6", "7", "8", "9"}

\* s.replace(/\s+/g, " "): every run of whitespace becomes one space
RECURSIVE CollapseWs(_)
CollapseWs(s) ==
  IF s = <<>> THEN <<>>
  ELSE IF IsSpace(Head(s))
    THEN <<" ">> \o CollapseWs(TrimLeft(s))
    ELSE <<Head(s)>> \o CollapseWs(Tail(s))

\* the won character and the won sign, which the module language cannot
\* write in a string
WonChar == "<won>"
WonSign == "<wonsign>"

\* /([0-9]{1,3}(?:,[0-9]{3})+)\s*<won>/.test(s): a match ends with one
\* digit, a comma, three digits, optional whitespace and the won character
WonAmountAt(s, i) ==
  /\ i + 4 <= Len(s)
  /\ IsDigit(s[i]) /\ s[i + 1] = ","
  /\ IsDigit(s[i + 2]) /\ IsDigit(s[i + 3]) /\ IsDigit(s[i + 4])
  /\ \E j \in (i + 5)..Len(s) :
       /\ s[j] = WonChar
       /\ \A k \in (i + 5)..(j - 1) : IsSpace(s[k])

\* /[$<euro><pound>]\s?[0-9][0-9,\.]*/.test(s), with "E" and "L" for the
\* euro and pound signs; no text of the model holds a currency code, the
\* other alternative of that expression
SymbolAmountAt(s, i) ==
  /\ s[i] \in {"$", "E", "L"}
  /\ \/ i + 1 <= Len(s) /\ IsDigit(s[i + 1])
     \/ i + 2 <= Len(s) /\ IsSpace(s[i + 1]) /\ IsDigit(s[i + 2])

\* the priceHit test of a result page's text
PriceHit(bodyText) ==
  \E i \in 1..Len(bodyText) :
    WonAmountAt(bodyText, i) \/ SymbolAmountAt(bodyText, i)

\* the nameHit test of a result page's text
NameHit(bodyText, productName, searchKeyword) ==
  LET norm == toLowerCase(CollapseWs(bodyText))
  IN \/ includes(norm, toLowerCase(productName))
     \/ includes(norm, toLowerCase(searchKeyword))

\* { ...a, ...b }: the fields of b override those of a
Spread(a, b) == b @@ a

\* the keyword list after trim, filter and de-duplication
CleanKeywords(list) ==
  Dedup(SelectSeq([i \in 1..Len(list) |-> trim(list[i])],
                  LAMBDA k : Len(k) > 0),
        <<>>)

\* readSearchInfo: what the in-page lookup of the search form returns
readSearchInfo(d, url, kw) ==
  CASE d.kind = "no_input" ->
         [errorReason |-> "input_not_found", pageUrl |-> url]
    [] d.kind = "no_form" ->
         [errorReason |-> "form_not_found", pageUrl |-> url,
          inputDebug |-> [id |-> d.id]]
    [] d.kind = "not_get" ->
         [errorReason |-> "method_not_get", pageUrl |-> url,
          formDebug |-> "form"]
    [] d.kind = "bad_action" ->
         [errorReason |-> "invalid_action_url", pageUrl |-> url,
          formDebug |-> "form"]
    [] OTHER ->
         [action |-> SearchUrlOf(SearchAction, SearchInputName, kw),
          method |-> "get", inputName |-> SearchInputName,
          inputDebug |-> [id |-> d.id], formDebug |-> "form"]

HasAction(searchInfo) == "action" \in DOMAIN searchInfo

\* the trigger-retry fallback applies: form_not_found and a non-empty id
WantsTrigger(searchInfo) ==
  /\ ~HasAction(searchInfo)
  /\ searchInfo.errorReason = "form_not_found"
  /\ trim(searchInfo.inputDebug.id) /= <<>>

\* a probe that clicks after any failed lookup
TriggerClicksOnAnyFailure(d, url, kw) ==
  IF ~HasAction(readSearchInfo(d, url, kw)) THEN 1 ELSE 0

\* the clicks of one probe: one when the fallback applies and
\* getElementById finds an element with the trimmed id, which the input is
\* when its id has no padding
TriggerClicks(d, url, kw) ==
  IF WantsTrigger(readSearchInfo(d, url, kw)) /\ d.id = trim(d.id)
    THEN 1 ELSE 0

\* the DOM after the probe's trigger click, if it clicks
DomAfterTrigger(d, url, kw) ==
  IF TriggerClicks(d, url, kw) > 0
    THEN Dom(d.clickKind, d.id, d.clickKind)
    ELSE d

\* a probe that reports every failed lookup as unknown
NoFormReasonUnknown(searchInfo) == "unknown"

\* `searchInfo?.errorReason ?? "unknown"`
NoFormReason(searchInfo) ==
  IF "errorReason" \in DOMAIN searchInfo THEN searchInfo.errorReason
                                         ELSE "unknown"

\* the info of a probe that found no usable form
NoFormInfo(label, kw, url, productName, searchInfo) ==
  [source |-> label, submittedText |-> kw, fromUrl |-> url,
   action |-> EmptyUrl, resultUrl |-> url, searchKeyword |-> kw,
   productName |-> productName, nameHit |-> FALSE, priceHit |-> FALSE,
   reason |-> NoFormReason(searchInfo), debug |-> searchInfo]

\* a probe that also accepts a page showing only a price
ProbeAvailableOnPrice(nameHit, priceHit) == nameHit \/ priceHit

\* the available flag of a probe that read a result page
ProbeAvailable(nameHit, priceHit) == nameHit

\* the result of a probe that submitted the form and read the result page
SubmitResult(label, kw, resultUrl, productName, searchInfo, bodyText) ==
  LET nameHit == NameHit(bodyText, productName, kw)
      priceHit == PriceHit(bodyText)
  IN [available |-> ProbeAvailable(nameHit, priceHit),
      info |-> Spread(Spread([source |-> label, submittedText |-> kw,
                              resultUrl |-> resultUrl, searchKeyword |-> kw,
                              productName |-> productName],
                             searchInfo),
                      [nameHit |-> nameHit, priceHit |-> priceHit])]


(***************************************************************************)
(* State.                                                                  *)
(***************************************************************************)
VARIABLES
  \* crawlProductUrls
  crawlPc,            \* "start", "loop", "goto", "links", "done", "threw"
  startUrl,           \* the argument
  visited,            \* Set<string>
  queue,              \* Array<{url, depth}>
  current,            \* the entry taken from the queue last
  normalized,         \* its normalized URL
  productCandidates,  \* Map<string, number>, in insertion order
  searchCandidates,   \* Set<string>, in insertion order
  fallbackSearchUrl,  \* string | null
  addedCategoryUrls,
  searchOnlyMode,
  crawlContextOpen,   \* the browser context of the crawl is open
  crawlResult,        \* the returned record, Null before the return
  hrefs,              \* the links read from the page loaded last
  linksLeft,          \* links of the site no page has exposed yet
  scoresSeen          \* history: every (URL, combined score) computed so far

VARIABLES
  \* checkSearchFormAvailability
  probePc,            \* "start", "round1", "round2", "done"
  searchKeywords,     \* the argument
  homeDom,            \* the DOM of the homepage when it is loaded
  lateDom,            \* the DOM of the homepage once its widgets settled
  resultDom,          \* the DOM of the site's search-result pages
  keywords,           \* the trimmed, de-duplicated keyword list
  kwIndex,            \* the position of the `for (const kw of keywords)` loop
  pageUrl,            \* page.url()
  dom,                \* the DOM of the page as it is now
  lastInfo,
  probeHistory,
  probeContextOpen,   \* the browser context of the probe is open
  probeReturn,        \* the returned {available, info}, Null before the return
  probeLog,           \* every probe run: its round, keyword, result, navigation
  navigations,        \* every URL page.goto was called with
  probeThrew          \* a navigation or an evaluation threw

VARIABLES
  \* collectSearchFormProducts
  collectPc,              \* "start", "browse", "closed", "done", "threw"
  collectSearchKeywords,  \* the argument searchKeywords
  fallbackKeyword,        \* the argument
  confirmedUrl,           \* the argument
  collectKeywords,        \* the keywords of the call
  kwPos,                  \* the position of `for (const kw of keywords)`
  urlPos,                 \* the position of the loop over the URLs of a keyword
  attempts,               \* the pages that gave text: their URL and keyword
  parsedProducts,         \* the answer of the oracle
  scored,                 \* the kept items with their scores, before the sort
  collectReturn,          \* the returned items and debug.reason, Null before the return
  collectContextOpen,     \* the browser context of the collector is open
  lastVisit,              \* pageText and networkText of the last page load,
                          \* Null outside the loop over the pages
  oracleCalls             \* the calls of parseSearchFormProductsWithGemini

VARIABLES
  \* POST
  postPc,                 \* "search", "signals", "probe", "collect", "confirm",
                          \* "failed"
  searchItems,            \* the hits of the web search
  officialDetailUrl,      \* string | null
  candidateSignals,       \* ProductSignals[]
  searchFormConfirmedUrl  \* string | null

VARIABLES
  \* fetchProductSignals
  fetchPc,           \* "start", "launched", "opened", "loaded", "closing",
                     \* "done", "threw"
  fetchUrl,          \* the argument
  fetchPage,         \* the page the URL serves
  fetchReturn,       \* the returned record, Null before the return
  fetchBrowserOpen,
  fetchContextOpen,  \* the browser context of the call is open
  fetchFailed        \* a step of the call threw

VARIABLES
  \* one call of scoreKeywordMatch or scoreKeywordText
  scorePc,           \* "start", "match" (scoreKeywordMatch returned),
                     \* "text" (scoreKeywordText returned)
  scoreInput,        \* the url or text argument
  scoreKeyword,      \* the keyword argument
  scoreResult        \* the returned number, Null before the return

scoreVars == << scorePc, scoreInput, scoreKeyword, scoreResult >>

VARIABLES
  \* one request to POST, each awaited call summarised by its outcome
  reqPc,             \* "validate", "search", "verify", "parse", "probe",
                     \* "probing", "collect", "collecting", "oracle",
                     \* "insert", "catch", "responded"
  reqEnv,            \* process.env: which credentials are set
  reqBody,           \* the request body: which fields are non-empty
  reqVerified,       \* what the verification gave: sourceUrl, a detail URL,
                     \* search keywords; Null before it
  reqConfirmed,      \* searchFormConfirmedUrl is a URL
  reqThrown,         \* the Error caught at line 1952, Null when none
  reqResponses,      \* the responses, in the order they were returned
  storeRows,         \* the number of rows inserted into the store
  browserLaunches,   \* the number of chromium.launch calls
  stageLog           \* the awaited calls, in the order they were started

reqVars ==
  << reqPc, reqEnv, reqBody, reqVerified, reqConfirmed, reqThrown,
     reqResponses, storeRows, browserLaunches, stageLog >>

VARIABLES
  \* the batch driver: one run of the script over the rows of the CSV file
  batchPc,           \* "row": at the top of the `for` body, "retry": at the
                     \* test of the `while`, "done": the CSV was written
  rows,              \* the input rows: brand and product_name
  rowIndex,          \* i + 1
  attempt,           \* the attempts of the current row
  ok,                \* the current row succeeded
  errorText,         \* the message of the last failure of the current row
  productList,       \* search_form_product_list of the current row
  requests,          \* the POST requests sent: the row and the outcome
  outputRows         \* the rows of the output CSV after the header

batchVars ==
  << batchPc, rows, rowIndex, attempt, ok, errorText, productList, requests,
     outputRows >>

VARIABLES
  \* the response listeners of the collector, for the URLs of one keyword
  capPc,             \* "start", "loading": inside the try block of a pass,
                     \* "closing": in the outer finally, "done"
  capIndex,          \* the pass of the loop over the URLs, from 1
  listeners,         \* the passes whose onResponse is registered on the page
  networkChunks,     \* the networkChunks array of every pass so far
  pending,           \* the handlers that await response.text()
  delivered,         \* for every response, the pass in which it was emitted
  capAttempts        \* the recorded attempts: pass, pageText, networkText

captureVars ==
  << capPc, capIndex, listeners, networkChunks, pending, delivered,
     capAttempts >>

postVars ==
  << postPc, searchItems, officialDetailUrl, candidateSignals,
     searchFormConfirmedUrl >>

fetchVars ==
  << fetchPc, fetchUrl, fetchPage, fetchReturn, fetchBrowserOpen,
     fetchContextOpen, fetchFailed >>

collectVars ==
  << collectPc, collectSearchKeywords, fallbackKeyword, confirmedUrl,
     collectKeywords, kwPos, urlPos, attempts, parsedProducts, scored,
     collectReturn, collectContextOpen, lastVisit, oracleCalls >>

probeVars ==
  << probePc, searchKeywords, homeDom, lateDom, resultDom, keywords, kwIndex,
     pageUrl, dom, lastInfo, probeHistory, probeContextOpen, probeReturn,
     probeLog, navigations, probeThrew >>

crawlVars ==
  << crawlPc, startUrl, visited, queue, current, normalized, productCandidates, searchCandidates,
     fallbackSearchUrl, addedCategoryUrls, searchOnlyMode, crawlContextOpen,
     crawlResult, hrefs, linksLeft, scoresSeen >>

vars ==
  << crawlVars, probeVars, collectVars, postVars, fetchVars,
     scoreVars, reqVars, batchVars, captureVars >>

\* what the steps of one component leave alone
notCrawlVars ==
  << probeVars, collectVars, postVars, fetchVars, scoreVars,
     reqVars, batchVars, captureVars >>
notProbeVars ==
  << crawlVars, collectVars, postVars, fetchVars, scoreVars,
     reqVars, batchVars, captureVars >>
notCollectVars ==
  << crawlVars, probeVars, postVars, fetchVars, scoreVars,
     reqVars, batchVars, captureVars >>
notPostVars ==
  << crawlVars, probeVars, collectVars, fetchVars, scoreVars,
     reqVars, batchVars, captureVars >>
notScoreVars ==
  << crawlVars, probeVars, collectVars, postVars, fetchVars,
     reqVars, batchVars, captureVars >>
notReqVars ==
  << crawlVars, probeVars, collectVars, postVars, fetchVars,
     scoreVars, batchVars, captureVars >>
notBatchVars ==
  << crawlVars, probeVars, collectVars, postVars, fetchVars,
     scoreVars, reqVars, captureVars >>
notCaptureVars ==
  << crawlVars, probeVars, collectVars, postVars, fetchVars,
     scoreVars, reqVars, batchVars >>
notFetchVars ==
  << crawlVars, probeVars, collectVars, postVars, scoreVars,
     reqVars, batchVars, captureVars >>

\* `new URL(startUrl)`: only an absolute URL parses without a base
baseUrl == startUrl

(***************************************************************************)
(* crawlProductUrls.                                                       *)
(***************************************************************************)
\* productCandidates.get(url) ?? 0
CandidateScore(cands, url) ==
  IF \E i \in 1..Len(cands) : cands[i].url = url
    THEN (CHOOSE e \in {cands[i] : i \in 1..Len(cands)} : e.url = url).score
    ELSE 0

\* productCandidates.set(url, score): a present key keeps its place
CandidateSet(cands, url, score) ==
  IF \E i \in 1..Len(cands) : cands[i].url = url
    THEN [i \in 1..Len(cands) |->
            IF cands[i].url = url THEN [url |-> url, score |-> score]
                                  ELSE cands[i]]
    ELSE Append(cands, [url |-> url, score |-> score])

\* the combined score of one link
LinkScore(absolute, text, keyword) ==
  scoreProductUrl(UrlString(absolute))
    + scoreKeywordMatch(UrlString(absolute), keyword)
    + scoreKeywordText(text, keyword)

\* a guard without the test `score > 0`
ShouldRecordHigher(score, prev) == score >= prev

\* a guard that records the score computed last
ShouldRecordLatest(score, prev) == score > 0

\* `if (score > 0) { ... if (score > prev) productCandidates.set(...) }`
ShouldRecord(score, prev) == score > 0 /\ score > prev

\* `absolute.toLowerCase().includes("category") || ...includes("cate_no=")`
LooksLikeCategory(absolute) ==
  LET lower == toLowerCase(UrlString(absolute))
  IN \/ includes(lower, <<"c","a","t","e","g","o","r","y">>)
     \/ includes(lower, <<"c","a","t","e","_","n","o","=">>)

\* a link-following guard without the depth bound
FollowLinkAnyDepth(mode, depth) == ~mode

\* the guard of the link-following push at the end of the loop body
FollowLink(mode, depth) == ~mode /\ depth + 1 <= MAX_CRAWL_DEPTH

\* the body of `for (const item of hrefs)` for one item; st holds the
\* queue, the category counter, the two candidate collections and the
\* history of the scores
ProcessLink(item, st, base, keyword, mode, depth, pageKey, fallback) ==
  LET absolute == normalizeUrl(base, item.href)
  IN IF absolute = Null THEN st
     ELSE IF ~isSameOriginOrSubdomain(base, absolute) THEN st
     ELSE
       LET isCat == /\ ~mode /\ depth = 0 /\ st.added < MaxCategoryUrls
                    /\ LooksLikeCategory(absolute)
           q1 == IF isCat
                   THEN Append(st.queue, [url |-> absolute, depth |-> depth + 1])
                   ELSE st.queue
           score == LinkScore(absolute, item.text, keyword)
           prev == CandidateScore(st.cands, absolute)
           c1 == IF ShouldRecord(score, prev)
                   THEN CandidateSet(st.cands, absolute, score)
                   ELSE st.cands
           s1 == IF fallback /= Null /\ pageKey = fallback
                      /\ ~(\E i \in 1..Len(st.scands) : st.scands[i] = absolute)
                   THEN Append(st.scands, absolute)
                   ELSE st.scands
           q2 == IF FollowLink(mode, depth)
                   THEN Append(q1, [url |-> absolute, depth |-> depth + 1])
                   ELSE q1
       IN [queue |-> q2, added |-> IF isCat THEN st.added + 1 ELSE st.added,
           cands |-> c1, scands |-> s1,
           seen |-> st.seen \cup { [url |-> absolute, score |-> score] }]

RECURSIVE ProcessLinks(_, _, _, _, _, _, _, _)
ProcessLinks(items, st, base, keyword, mode, depth, pageKey, fallback) ==
  IF items = <<>> THEN st
  ELSE ProcessLinks(Tail(items),
                    ProcessLink(Head(items), st, base, keyword, mode, depth,
                                pageKey, fallback),
                    base, keyword, mode, depth, pageKey, fallback)

\* Array.prototype.sort((a, b) => b[1] - a[1]): stable, by descending score
RECURSIVE InsertByScore(_, _)
InsertByScore(sorted, e) ==
  IF sorted = <<>> THEN <<e>>
  ELSE IF Head(sorted).score >= e.score
    THEN <<Head(sorted)>> \o InsertByScore(Tail(sorted), e)
    ELSE <<e>> \o sorted

RECURSIVE SortByScore(_)
SortByScore(list) ==
  IF list = <<>> THEN <<>>
  ELSE InsertByScore(SortByScore(SubSeq(list, 1, Len(list) - 1)), list[Len(list)])

\* a crawl loop that forgets the page cap
CrawlLoopGuardNoCap(q, v) == Len(q) > 0

\* the condition of the crawl loop
CrawlLoopGuard(q, v) == Len(q) > 0 /\ Cardinality(v) < MAX_CRAWL_PAGES

\* a loop that reads the head of the queue and leaves it there
QueueRestPeek(q) == q

\* queue.shift(): what is left of the queue
QueueRest(q) == Tail(q)

\* the state of a component that is not running
CrawlIdle ==
  /\ crawlPc = "idle"
  /\ startUrl = Null
  /\ visited = {}
  /\ queue = <<>>
  /\ current = Null
  /\ normalized = Null
  /\ productCandidates = <<>>
  /\ searchCandidates = <<>>
  /\ fallbackSearchUrl = Null
  /\ addedCategoryUrls = 0
  /\ searchOnlyMode = FALSE
  /\ crawlContextOpen = FALSE
  /\ crawlResult = Null
  /\ hrefs = <<>>
  /\ linksLeft = 0
  /\ scoresSeen = {}

ProbeIdle ==
  /\ probePc = "idle"
  /\ searchKeywords = <<>>
  /\ homeDom = Null
  /\ lateDom = Null
  /\ resultDom = Null
  /\ keywords = <<>>
  /\ kwIndex = 0
  /\ pageUrl = Null
  /\ dom = Null
  /\ lastInfo = Null
  /\ probeHistory = <<>>
  /\ probeContextOpen = FALSE
  /\ probeReturn = Null
  /\ probeLog = <<>>
  /\ navigations = <<>>
  /\ probeThrew = FALSE

CollectIdle ==
  /\ collectPc = "idle"
  /\ collectSearchKeywords = <<>>
  /\ fallbackKeyword = <<>>
  /\ confirmedUrl = Null
  /\ collectKeywords = <<>>
  /\ kwPos = 0
  /\ urlPos = 0
  /\ attempts = <<>>
  /\ parsedProducts = <<>>
  /\ scored = <<>>
  /\ collectReturn = Null
  /\ collectContextOpen = FALSE
  /\ lastVisit = Null
  /\ oracleCalls = 0

PostIdle ==
  /\ postPc = "idle"
  /\ searchItems = <<>>
  /\ officialDetailUrl = Null
  /\ candidateSignals = <<>>
  /\ searchFormConfirmedUrl = Null

FetchIdle ==
  /\ fetchPc = "idle"
  /\ fetchUrl = Null
  /\ fetchPage = Null
  /\ fetchReturn = Null
  /\ fetchBrowserOpen = FALSE
  /\ fetchContextOpen = FALSE
  /\ fetchFailed = FALSE

ScoreIdle ==
  /\ scorePc = "idle"
  /\ scoreInput = Null
  /\ scoreKeyword = Null
  /\ scoreResult = Null

ReqIdle ==
  /\ reqPc = "idle"
  /\ reqEnv = Null
  /\ reqBody = Null
  /\ reqVerified = Null
  /\ reqConfirmed = FALSE
  /\ reqThrown = Null
  /\ reqResponses = <<>>
  /\ storeRows = 0
  /\ browserLaunches = 0
  /\ stageLog = <<>>

BatchIdle ==
  /\ batchPc = "idle"
  /\ rows = <<>>
  /\ rowIndex = 0
  /\ attempt = 0
  /\ ok = FALSE
  /\ errorText = <<>>
  /\ productList = <<>>
  /\ requests = <<>>
  /\ outputRows = <<>>

CaptureIdle ==
  /\ capPc = "idle"
  /\ capIndex = 0
  /\ listeners = {}
  /\ networkChunks = <<>>
  /\ pending = {}
  /\ delivered = <<>>
  /\ capAttempts = <<>>

InitCrawl ==
  /\ CaptureIdle
  /\ BatchIdle
  /\ ReqIdle
  /\ ScoreIdle
  /\ ProbeIdle
  /\ CollectIdle
  /\ PostIdle
  /\ FetchIdle
  /\ crawlPc = "start"
  /\ startUrl \in StartUrls
  /\ visited = {}
  /\ queue = <<>>
  /\ current = Null
  /\ normalized = Null
  /\ productCandidates = <<>>
  /\ searchCandidates = <<>>
  /\ fallbackSearchUrl = Null
  /\ addedCategoryUrls = 0
  /\ searchOnlyMode = FALSE
  /\ crawlContextOpen = FALSE
  /\ crawlResult = Null
  /\ hrefs = <<>>
  /\ linksLeft = MaxSiteLinks
  /\ scoresSeen = {}

\* the browser and the context are opened, `new URL(startUrl)` parses
CrawlBegin ==
  /\ UNCHANGED notCrawlVars
  /\ UNCHANGED scoresSeen
  /\ crawlPc = "start"
  /\ startUrl.kind = "abs"
  /\ crawlContextOpen' = TRUE
  /\ queue' = << [url |-> startUrl, depth |-> 0] >>
  /\ crawlPc' = "loop"
  /\ UNCHANGED << startUrl, current, normalized, visited, productCandidates, searchCandidates,
                  fallbackSearchUrl, addedCategoryUrls, searchOnlyMode,
                  crawlResult, hrefs, linksLeft >>

\* `new URL(startUrl)` throws, after the context was opened and before the try
CrawlBadStart ==
  /\ UNCHANGED notCrawlVars
  /\ UNCHANGED scoresSeen
  /\ crawlPc = "start"
  /\ startUrl.kind /= "abs"
  /\ crawlContextOpen' = TRUE
  /\ crawlPc' = "threw"
  /\ UNCHANGED << startUrl, current, normalized, visited, queue, productCandidates,
                  searchCandidates, fallbackSearchUrl, addedCategoryUrls,
                  searchOnlyMode, crawlResult, hrefs, linksLeft >>

\* an entry that does not normalize or was visited is dropped
CrawlSkip ==
  /\ UNCHANGED notCrawlVars
  /\ UNCHANGED scoresSeen
  /\ crawlPc = "loop"
  /\ CrawlLoopGuard(queue, visited)
  /\ LET n == normalizeUrl(baseUrl, Head(queue).url)
     IN n = Null \/ n \in visited
  /\ queue' = QueueRest(queue)
  /\ UNCHANGED << crawlPc, startUrl, visited, current, normalized,
                  productCandidates, searchCandidates, fallbackSearchUrl,
                  addedCategoryUrls, searchOnlyMode, crawlContextOpen,
                  crawlResult, hrefs, linksLeft >>

\* the head of the queue is taken and marked visited; its page is opened
CrawlVisit ==
  /\ UNCHANGED notCrawlVars
  /\ UNCHANGED scoresSeen
  /\ crawlPc = "loop"
  /\ CrawlLoopGuard(queue, visited)
  /\ LET n == normalizeUrl(baseUrl, Head(queue).url)
     IN /\ n /= Null /\ n \notin visited
        /\ normalized' = n
        /\ visited' = visited \cup {n}
  /\ current' = Head(queue)
  /\ queue' = QueueRest(queue)
  /\ crawlPc' = "goto"
  /\ UNCHANGED << startUrl, productCandidates, searchCandidates,
                  fallbackSearchUrl, addedCategoryUrls, searchOnlyMode,
                  crawlContextOpen, crawlResult, hrefs, linksLeft >>

\* page.goto or an evaluation of the page throws: the inner catch swallows
\* it, the page is closed and the loop goes on
CrawlPageFail ==
  /\ UNCHANGED notCrawlVars
  /\ UNCHANGED scoresSeen
  /\ crawlPc \in {"goto", "links"}
  /\ crawlPc' = "loop"
  /\ hrefs' = <<>>
  /\ UNCHANGED << startUrl, visited, queue, current, normalized,
                  productCandidates, searchCandidates, fallbackSearchUrl,
                  addedCategoryUrls, searchOnlyMode, crawlContextOpen,
                  crawlResult, linksLeft >>

\* the page loads and its links are read
CrawlReadLinks ==
  /\ UNCHANGED notCrawlVars
  /\ UNCHANGED scoresSeen
  /\ crawlPc = "goto"
  /\ hrefs' \in PageLinks(linksLeft)
  /\ linksLeft' = linksLeft - Len(hrefs')
  /\ crawlPc' = "links"
  /\ UNCHANGED << startUrl, visited, queue, current, normalized,
                  productCandidates, searchCandidates, fallbackSearchUrl,
                  addedCategoryUrls, searchOnlyMode, crawlContextOpen,
                  crawlResult >>

\* a short-circuit that enqueues the search URL at the depth bound
ShortCircuitDepthAtBound(depth) == MAX_CRAWL_DEPTH

\* `Math.min(current.depth + 1, MAX_CRAWL_DEPTH)`
ShortCircuitDepth(depth) ==
  IF depth + 1 <= MAX_CRAWL_DEPTH THEN depth + 1 ELSE MAX_CRAWL_DEPTH

\* a short-circuit that goes on to the loop over the links of the page
LinksAfterShortCircuitAll(links) == links

\* `continue`: the loop over the links of the page is not entered
LinksAfterShortCircuit(links) == <<>>

\* the search-form short-circuit: a GET search form on a depth-0 page
CrawlSearchForm ==
  /\ UNCHANGED notCrawlVars
  /\ crawlPc = "links"
  /\ fallbackSearchUrl = Null /\ current.depth = 0
  /\ \E action \in FormActions :
       LET searchUrl == SearchUrlOf(action, <<"q">>, CrawlKeyword)
           depth == ShortCircuitDepth(current.depth)
       IN /\ fallbackSearchUrl' = searchUrl
          /\ searchOnlyMode' = TRUE
          /\ \E st \in { ProcessLinks(LinksAfterShortCircuit(hrefs),
                             [queue |-> << [url |-> searchUrl, depth |-> depth] >>,
                              added |-> addedCategoryUrls,
                              cands |-> productCandidates,
                              scands |-> searchCandidates,
                              seen |-> scoresSeen],
                             baseUrl, CrawlKeyword, TRUE, current.depth,
                             normalized, searchUrl) } :
               /\ queue' = st.queue
               /\ addedCategoryUrls' = st.added
               /\ productCandidates' = st.cands
               /\ searchCandidates' = st.scands
               /\ scoresSeen' = st.seen
  /\ crawlPc' = "loop"
  /\ hrefs' = <<>>
  /\ UNCHANGED << startUrl, visited, current, normalized, crawlContextOpen,
                  crawlResult, linksLeft >>

\* no search form short-circuits: the links of the page are processed
CrawlLinks ==
  /\ UNCHANGED notCrawlVars
  /\ crawlPc = "links"
  /\ \E st \in { ProcessLinks(hrefs,
                   [queue |-> queue, added |-> addedCategoryUrls,
                    cands |-> productCandidates, scands |-> searchCandidates,
                    seen |-> scoresSeen],
                   baseUrl, CrawlKeyword, searchOnlyMode, current.depth,
                   normalized, fallbackSearchUrl) } :
       /\ queue' = st.queue
       /\ addedCategoryUrls' = st.added
       /\ productCandidates' = st.cands
       /\ searchCandidates' = st.scands
       /\ scoresSeen' = st.seen
  /\ crawlPc' = "loop"
  /\ hrefs' = <<>>
  /\ UNCHANGED << startUrl, visited, current, normalized, fallbackSearchUrl,
                  searchOnlyMode, crawlContextOpen, crawlResult, linksLeft >>

\* the loop ends: the context is closed and the result is built
CrawlFinish ==
  /\ UNCHANGED notCrawlVars
  /\ UNCHANGED scoresSeen
  /\ crawlPc = "loop"
  /\ ~CrawlLoopGuard(queue, visited)
  /\ crawlContextOpen' = FALSE
  /\ crawlResult' = [visited |-> visited,
                     productCandidates |-> SortByScore(productCandidates),
                     fallbackSearchUrl |-> fallbackSearchUrl,
                     searchCandidates |-> searchCandidates]
  /\ crawlPc' = "done"
  /\ UNCHANGED << startUrl, current, normalized, visited, queue, productCandidates,
                  searchCandidates, fallbackSearchUrl, addedCategoryUrls,
                  searchOnlyMode, hrefs, linksLeft >>

NextCrawl ==
  \/ CrawlBegin
  \/ CrawlBadStart
  \/ CrawlSkip
  \/ CrawlVisit
  \/ CrawlPageFail
  \/ CrawlReadLinks
  \/ CrawlSearchForm
  \/ CrawlLinks
  \/ CrawlFinish

\* every step of the crawl is awaited to completion: the loop keeps running
SpecCrawl == InitCrawl /\ [][NextCrawl]_vars /\ WF_vars(NextCrawl)


(***************************************************************************)
(* checkSearchFormAvailability.                                            *)
(***************************************************************************)
InitProbe ==
  /\ CaptureIdle
  /\ BatchIdle
  /\ ReqIdle
  /\ ScoreIdle
  /\ CrawlIdle
  /\ CollectIdle
  /\ PostIdle
  /\ FetchIdle
  /\ probePc = "start"
  /\ searchKeywords \in KeywordLists
  /\ homeDom \in HomeDoms
  /\ lateDom \in {homeDom, DomOk}
  /\ resultDom \in ResultDoms
  /\ keywords = <<>>
  /\ kwIndex = 0
  /\ pageUrl = Null
  /\ dom = Null
  /\ lastInfo = Null
  /\ probeHistory = <<>>
  /\ probeContextOpen = FALSE
  /\ probeReturn = Null
  /\ probeLog = <<>>
  /\ navigations = <<>>
  /\ probeThrew = FALSE

\* a loop that walks the keyword list from its end
KeywordAtReversed(list, i) == list[Len(list) + 1 - i]

\* `for (const kw of keywords)`: the keyword of the i-th iteration
KeywordAt(list, i) == list[i]

\* a retry that is taken again after the retry round
MayRetryAgain(pc) == pc \in {"round1", "round2"}

\* the retry round follows the homepage round, once
MayRetry(pc) == pc = "round1"

\* the `for` loop over the keywords has run out
RoundDone(list, i) == i > Len(list)

\* `{ round: 1, ...first.info }`: the history entry of a probe
TagRound(round, info) == Spread([round |-> round], info)

\* a final info whose own fields override those of the last probe
AllFailedInfoOwnFieldsLast(history, last) ==
  Spread(IF last = Null THEN <<>> ELSE last,
         [source |-> "homepage", reason |-> "all_probe_failed",
          homepageUrl |-> HomepageUrl, productName |-> ProductName,
          attempts |-> history])

\* the label of the probes of a round
RoundLabel(round) == IF round = 1 THEN "homepage" ELSE "homepage_retry"

RoundOf(pc) == IF pc = "round1" THEN 1 ELSE 2

\* the DOMs the page can show once waitForTimeout(2000) is over: the widgets
\* of the homepage may have settled
DomsAfterWait(round) ==
  IF round = 2 /\ pageUrl = HomepageUrl /\ dom = homeDom
    THEN {dom, lateDom}
    ELSE {dom}

\* no keyword is left after trimming: the function returns before it
\* launches a browser
ProbeNoKeywords ==
  /\ probePc = "start"
  /\ CleanKeywords(searchKeywords) = <<>>
  /\ probeReturn' = [available |-> FALSE, info |-> Null]
  /\ probePc' = "done"
  /\ UNCHANGED << searchKeywords, homeDom, lateDom, resultDom, keywords,
                  kwIndex, pageUrl, dom, lastInfo, probeHistory,
                  probeContextOpen, probeLog, navigations, probeThrew >>
  /\ UNCHANGED notProbeVars

\* the browser is launched and the homepage is loaded
ProbeOpen ==
  /\ probePc = "start"
  /\ CleanKeywords(searchKeywords) /= <<>>
  /\ keywords' = CleanKeywords(searchKeywords)
  /\ probeContextOpen' = TRUE
  /\ navigations' = Append(navigations, HomepageUrl)
  /\ pageUrl' = HomepageUrl
  /\ dom' = homeDom
  /\ kwIndex' = 1
  /\ probePc' = "round1"
  /\ UNCHANGED << searchKeywords, homeDom, lateDom, resultDom, lastInfo,
                  probeHistory, probeReturn, probeLog, probeThrew >>
  /\ UNCHANGED notProbeVars

\* a catch block that hands back the history gathered so far
CatchResultWithHistory(history) ==
  [available |-> FALSE, info |-> [reason |-> "probe_threw", attempts |-> history]]

\* `catch { return { available: false, info: null }; }`
CatchResult(history) == [available |-> FALSE, info |-> Null]

\* the load of the homepage throws: the catch returns, the finally closes
ProbeOpenFails ==
  /\ probePc = "start"
  /\ CleanKeywords(searchKeywords) /= <<>>
  /\ keywords' = CleanKeywords(searchKeywords)
  /\ navigations' = Append(navigations, HomepageUrl)
  /\ probeThrew' = TRUE
  /\ probeContextOpen' = FALSE
  /\ probeReturn' = CatchResult(probeHistory)
  /\ probePc' = "done"
  /\ UNCHANGED << searchKeywords, homeDom, lateDom, resultDom, kwIndex,
                  pageUrl, dom, lastInfo, probeHistory, probeLog >>
  /\ UNCHANGED notProbeVars

\* a probe finds no usable form, also after the trigger retry: it returns
\* available=false without navigating, and the loop goes on
ProbeNoForm ==
  /\ probePc \in {"round1", "round2"}
  /\ ~RoundDone(keywords, kwIndex)
  /\ \E d0 \in DomsAfterWait(RoundOf(probePc)) :
       LET kw == KeywordAt(keywords, kwIndex)
           d1 == DomAfterTrigger(d0, pageUrl, kw)
           searchInfo == readSearchInfo(d1, pageUrl, kw)
           res == [available |-> FALSE,
                   info |-> NoFormInfo(RoundLabel(RoundOf(probePc)), kw,
                                       pageUrl, ProductName, searchInfo)]
       IN /\ ~HasAction(searchInfo)
          /\ dom' = d1
          /\ lastInfo' = res.info
          /\ probeHistory' =
               Append(probeHistory,
                      TagRound(RoundOf(probePc), res.info))
          /\ probeLog' =
               Append(probeLog,
                      [round |-> RoundOf(probePc), kw |-> kw, result |-> res,
                       navigated |-> FALSE, searchInfo |-> searchInfo,
                       clicks |-> TriggerClicks(d0, pageUrl, kw),
                       lookups |-> 1 + TriggerClicks(d0, pageUrl, kw),
                       firstInfo |-> readSearchInfo(d0, pageUrl, kw),
                       fromUrl |-> pageUrl])
  /\ kwIndex' = kwIndex + 1
  /\ UNCHANGED << probePc, searchKeywords, homeDom, lateDom, resultDom,
                  keywords, pageUrl, probeContextOpen, probeReturn,
                  navigations, probeThrew >>
  /\ UNCHANGED notProbeVars

\* a probe submits the form: it navigates to the action URL and reads the
\* result page; an available result is returned at once
ProbeSubmit ==
  /\ probePc \in {"round1", "round2"}
  /\ ~RoundDone(keywords, kwIndex)
  /\ \E d0 \in DomsAfterWait(RoundOf(probePc)), bodyText \in BodyTexts :
       LET kw == KeywordAt(keywords, kwIndex)
           d1 == DomAfterTrigger(d0, pageUrl, kw)
           searchInfo == readSearchInfo(d1, pageUrl, kw)
       IN /\ HasAction(searchInfo)
          /\ navigations' = Append(navigations, searchInfo.action)
          /\ pageUrl' = searchInfo.action
          /\ dom' = resultDom
          /\ \E res \in { SubmitResult(RoundLabel(RoundOf(probePc)), kw,
                                       searchInfo.action, ProductName,
                                       searchInfo, bodyText) } :
               /\ lastInfo' = res.info
               /\ probeHistory' =
                    Append(probeHistory,
                           TagRound(RoundOf(probePc), res.info))
               /\ probeLog' =
                    Append(probeLog,
                           [round |-> RoundOf(probePc), kw |-> kw,
                            result |-> res, navigated |-> TRUE,
                            searchInfo |-> searchInfo,
                            clicks |-> TriggerClicks(d0, pageUrl, kw),
                       lookups |-> 1 + TriggerClicks(d0, pageUrl, kw),
                       firstInfo |-> readSearchInfo(d0, pageUrl, kw),
                       fromUrl |-> pageUrl])
               /\ IF res.available
                    THEN /\ probeReturn' = res
                         /\ probeContextOpen' = FALSE
                         /\ probePc' = "done"
                         /\ kwIndex' = kwIndex
                    ELSE /\ kwIndex' = kwIndex + 1
                         /\ UNCHANGED << probePc, probeReturn, probeContextOpen >>
  /\ UNCHANGED << searchKeywords, homeDom, lateDom, resultDom, keywords,
                  probeThrew >>
  /\ UNCHANGED notProbeVars

\* an evaluation of the page throws during a probe: the catch returns
ProbeEvaluateThrows ==
  /\ probePc \in {"round1", "round2"}
  /\ ~RoundDone(keywords, kwIndex)
  /\ probeThrew' = TRUE
  /\ probeContextOpen' = FALSE
  /\ probeReturn' = CatchResult(probeHistory)
  /\ probePc' = "done"
  /\ UNCHANGED << searchKeywords, homeDom, lateDom, resultDom, keywords,
                  kwIndex, pageUrl, dom, lastInfo, probeHistory, probeLog,
                  navigations >>
  /\ UNCHANGED notProbeVars

\* the navigation to the action URL throws: the catch returns
ProbeGotoThrows ==
  /\ probePc \in {"round1", "round2"}
  /\ ~RoundDone(keywords, kwIndex)
  /\ \E d0 \in DomsAfterWait(RoundOf(probePc)) :
       LET kw == KeywordAt(keywords, kwIndex)
           d1 == DomAfterTrigger(d0, pageUrl, kw)
           searchInfo == readSearchInfo(d1, pageUrl, kw)
       IN /\ HasAction(searchInfo)
          /\ navigations' = Append(navigations, searchInfo.action)
          /\ dom' = d1
  /\ probeThrew' = TRUE
  /\ probeContextOpen' = FALSE
  /\ probeReturn' = CatchResult(probeHistory)
  /\ probePc' = "done"
  /\ UNCHANGED << searchKeywords, homeDom, lateDom, resultDom, keywords,
                  kwIndex, pageUrl, lastInfo, probeHistory, probeLog >>
  /\ UNCHANGED notProbeVars

\* every keyword was probed on the homepage without success: the retry
\* round starts
ProbeRetryRound ==
  /\ MayRetry(probePc)
  /\ RoundDone(keywords, kwIndex)
  /\ probePc' = "round2"
  /\ kwIndex' = 1
  /\ UNCHANGED << searchKeywords, homeDom, lateDom, resultDom, keywords,
                  pageUrl, dom, lastInfo, probeHistory, probeContextOpen,
                  probeReturn, probeLog, navigations, probeThrew >>
  /\ UNCHANGED notProbeVars

\* the info returned when both rounds failed
AllFailedInfo(history, last) ==
  Spread([source |-> "homepage", reason |-> "all_probe_failed",
          homepageUrl |-> HomepageUrl, productName |-> ProductName,
          attempts |-> history],
         IF last = Null THEN <<>> ELSE last)

\* both rounds failed
ProbeAllFailed ==
  /\ probePc = "round2"
  /\ RoundDone(keywords, kwIndex)
  /\ probeReturn' = [available |-> FALSE,
                     info |-> AllFailedInfo(probeHistory, lastInfo)]
  /\ probeContextOpen' = FALSE
  /\ probePc' = "done"
  /\ UNCHANGED << searchKeywords, homeDom, lateDom, resultDom, keywords,
                  kwIndex, pageUrl, dom, lastInfo, probeHistory, probeLog,
                  navigations, probeThrew >>
  /\ UNCHANGED notProbeVars

NextProbe ==
  \/ ProbeNoKeywords
  \/ ProbeOpen
  \/ ProbeOpenFails
  \/ ProbeNoForm
  \/ ProbeSubmit
  \/ ProbeEvaluateThrows
  \/ ProbeGotoThrows
  \/ ProbeRetryRound
  \/ ProbeAllFailed

SpecProbe == InitProbe /\ [][NextProbe]_vars

(***************************************************************************)
(* collectSearchFormProducts.                                              *)
(***************************************************************************)
\* "search_form_text_parse"
DefaultReason ==
  <<"s", "e", "a", "r", "c", "h", "_", "f", "o", "r", "m", "_", "t",
  "e", "x", "t", "_", "p", "a", "r", "s", "e">>

\* " | detail_url_not_resolved"
UnresolvedSuffix ==
  <<" ", "|", " ", "d", "e", "t", "a", "i", "l", "_", "u", "r", "l",
  "_", "n", "o", "t", "_", "r", "e", "s", "o", "l", "v", "e", "d">>

\* the keyword lists and the fallback keyword of a call
CollectKeywordLists ==
  { <<>>,
    << <<" ">> >>,
    << <<"b", "s">> >>,
    << <<"x">>, <<" ", "B", " ", "s">>, <<"x">> >> }

FallbackKeywords == { <<>>, <<" ", "d">> }

ConfirmedUrls == { Url("abs", SiteHost, <<"/", "s", "?", "q", "=", "a">>, <<>>), BadUrl }

\* the items the oracle can answer with; an absent field reads as ""
OracleItem(productName, listPrice, salePrice, url, reason) ==
  [productName |-> productName, listPrice |-> listPrice,
   salePrice |-> salePrice, imageSrc |-> <<>>, url |-> url, reason |-> reason]

OracleItems ==
  { OracleItem(<<"a", "b">>, <<"1">>, <<>>, EmptyUrl, <<>>),
    OracleItem(<<" ">>, <<"1">>, <<>>, EmptyUrl, <<"r">>),
    OracleItem(<<"B", " ", "s">>, <<>>, <<" ", "2">>,
               Url("rel", <<>>, <<"/", "c">>, <<>>), <<"r">>),
    OracleItem(<<"c">>, <<" ">>, <<>>,
               Url("rel", <<>>, <<"/", "c">>, <<>>), <<"r">>),
    OracleItem(<<"c">>, <<>>, <<"2">>,
               Url("bad", <<>>, <<"/", "/">>, <<>>), <<"r">>),
    OracleItem(<<"c">>, <<"1">>, <<"2">>,
               Url("abs", SiteHost, <<"/", "b", "s">>, <<"f">>), <<>>),
    OracleItem(<<"d", " ">>, <<"1">>, <<>>,
               Url("rel", <<>>, <<"/", "c">>, <<>>), <<"b", "S">>),
    OracleItem(<<"S", "H", "O", "P">>, <<"1">>, <<>>,
               Url("rel", <<>>, <<"/", "c">>, <<>>), <<"r">>) }

\* the labels the prompt of the oracle forbids as product names
\* ("SHOP", "Home")
DeniedLabels == { <<"S", "H", "O", "P">>, <<"H", "o", "m", "e">> }

\* the lists parseSearchFormProductsWithGemini can return
OracleOutputs ==
  UNION { [1..n -> OracleItems] : n \in 0..MaxOracleItems }

\* `new URL(raw, confirmedUrl).toString()`, or raw when it does not parse;
\* "" for an empty raw
ItemUrl(raw, base) ==
  CASE raw.kind = "empty" -> <<>>
    [] raw.kind = "bad" -> raw.path
    [] raw.kind = "rel" -> UrlString(Url("abs", base.host, raw.path, raw.frag))
    [] OTHER -> UrlString(raw)

\* an item is kept with a name alone
KeepItemWithNameOnly(productName, listPrice, salePrice) == productName /= <<>>

\* the negation of `!productName || (!listPrice && !salePrice)`
KeepItem(productName, listPrice, salePrice) ==
  productName /= <<>> /\ (listPrice /= <<>> \/ salePrice /= <<>>)

\* the keyword of the last entry of the keyword list
KeywordUsedLast(kws, fallback) ==
  IF kws /= <<>> /\ kws[Len(kws)] /= <<>> THEN kws[Len(kws)] ELSE fallback

\* `keywordUsed: keywords[0] || fallbackKeyword`
KeywordUsedOf(kws, fallback) ==
  IF kws /= <<>> /\ kws[1] /= <<>> THEN kws[1] ELSE fallback

\* the first map of the post-processing: Null for an item that is dropped
CleanItem(item, base, kws, fallback) ==
  LET productName == trim(item.productName)
      listPrice == trim(item.listPrice)
      salePrice == trim(item.salePrice)
      imageSrc == trim(item.imageSrc)
      url == ItemUrl(item.url, base)
  IN IF ~KeepItem(productName, listPrice, salePrice) THEN Null
     ELSE [url |-> url, productName |-> productName, listPrice |-> listPrice,
           salePrice |-> salePrice, imageSrc |-> imageSrc, score |-> 0,
           reason |-> (IF item.reason = <<>> THEN DefaultReason ELSE item.reason)
                        \o (IF url /= <<>> THEN <<>> ELSE UnresolvedSuffix),
           keywordUsed |-> KeywordUsedOf(kws, fallback)]

hasPriorityKeywordMatch(text, kws) ==
  LET normalizedText == StripWs(toLowerCase(text))
  IN /\ normalizedText /= <<>>
     /\ \E i \in 1..Len(kws) :
          LET normalizedKw == StripWs(toLowerCase(kws[i]))
          IN normalizedKw /= <<>> /\ includes(normalizedText, normalizedKw)

\* `${item.productName} ${item.url} ${item.reason}`
Haystack(item) == item.productName \o <<" ">> \o item.url \o <<" ">> \o item.reason

\* the second map: the item with its score
ScoreItem(item, kws) ==
  [item EXCEPT !.score = IF hasPriorityKeywordMatch(Haystack(item), kws)
                           THEN 10 ELSE 0]

\* map, filter, map: the kept items with their scores, in the oracle's order
ScoredItems(parsed, base, kws, fallback) ==
  LET cleaned == [i \in 1..Len(parsed) |-> CleanItem(parsed[i], base, kws, fallback)]
      kept == SelectSeq(cleaned, LAMBDA v : v /= Null)
  IN [i \in 1..Len(kept) |-> ScoreItem(kept[i], kws)]

\* Array.prototype.slice(0, n)
Slice(list, n) == SubSeq(list, 1, IF Len(list) < n THEN Len(list) ELSE n)

\* the keywords of the call: the cleaned list, or the fallback keyword
CollectKeywordsOf(list, fallback) ==
  IF CleanKeywords(list) = <<>> /\ trim(fallback) /= <<>>
    THEN <<trim(fallback)>>
    ELSE CleanKeywords(list)

\* the position of the first c in s, 0 when there is none
IndexOf(s, c) ==
  IF \E i \in 1..Len(s) : s[i] = c
    THEN CHOOSE i \in 1..Len(s) : s[i] = c /\ \A j \in 1..(i - 1) : s[j] /= c
    ELSE 0

\* String.prototype.split on one character
RECURSIVE SplitOn(_, _)
SplitOn(s, c) ==
  IF IndexOf(s, c) = 0 THEN <<s>>
  ELSE <<SubSeq(s, 1, IndexOf(s, c) - 1)>>
         \o SplitOn(SubSeq(s, IndexOf(s, c) + 1, Len(s)), c)

\* the path of a URL without its query, and its query without the "?"
PathOnly(path) ==
  IF IndexOf(path, "?") = 0 THEN path ELSE SubSeq(path, 1, IndexOf(path, "?") - 1)

QueryOnly(path) ==
  IF IndexOf(path, "?") = 0 THEN <<>>
  ELSE SubSeq(path, IndexOf(path, "?") + 1, Len(path))

\* url.searchParams: the name=value pairs of the query, in order
SearchParams(path) ==
  LET parts == SelectSeq(SplitOn(QueryOnly(path), "&"), LAMBDA p : p /= <<>>)
  IN [i \in 1..Len(parts) |->
        IF IndexOf(parts[i], "=") = 0
          THEN [name |-> parts[i], value |-> <<>>]
          ELSE [name |-> SubSeq(parts[i], 1, IndexOf(parts[i], "=") - 1),
                value |-> SubSeq(parts[i], IndexOf(parts[i], "=") + 1,
                                 Len(parts[i]))]]

\* the form-urlencoded value: a space is written "+"
EncodeParam(value) == [i \in 1..Len(value) |-> IF value[i] = " " THEN "+" ELSE value[i]]

\* URLSearchParams.set: the first pair of that name takes the value and the
\* other pairs of that name are deleted; a new pair is appended otherwise
SetPair(pairs, name, value) ==
  IF \E i \in 1..Len(pairs) : pairs[i].name = name
    THEN LET first == CHOOSE i \in 1..Len(pairs) :
                        /\ pairs[i].name = name
                        /\ \A j \in 1..(i - 1) : pairs[j].name /= name
             set == [i \in 1..Len(pairs) |->
                       IF i = first THEN [name |-> name, value |-> value]
                                    ELSE pairs[i]]
             keep == { i \in 1..Len(pairs) : i = first \/ pairs[i].name /= name }
         IN [n \in 1..Cardinality(keep) |->
               set[CHOOSE i \in keep : Cardinality({ j \in keep : j <= i }) = n]]
    ELSE Append(pairs, [name |-> name, value |-> value])

RECURSIVE JoinPairs(_)
JoinPairs(pairs) ==
  IF pairs = <<>> THEN <<>>
  ELSE Head(pairs).name \o <<"=">> \o Head(pairs).value
         \o (IF Len(pairs) > 1 THEN <<"&">> ELSE <<>>) \o JoinPairs(Tail(pairs))

\* `u.searchParams.set(name, value)` on a copy of the URL u
SetSearchParam(u, name, value) ==
  Url(u.kind, u.host,
      PathOnly(u.path) \o <<"?">>
        \o JoinPairs(SetPair(SearchParams(u.path), name, EncodeParam(value))),
      u.frag)

\* ["q", "keyword", "search", "kwrd"]
ParamNames ==
  << <<"q">>, <<"k", "e", "y", "w", "o", "r", "d">>,
     <<"s", "e", "a", "r", "c", "h">>, <<"k", "w", "r", "d">> >>

\* a list of URLs that keeps a repeated URL
CollectUrlsAsList(confirmed, kw) ==
  SubSeq(<<confirmed>>
           \o [i \in 1..Len(ParamNames) |->
                 SetSearchParam(confirmed, ParamNames[i], kw)],
         1, MaxUrlsPerKeyword)

\* the URLs the collector loads for one keyword: the confirmed URL, then the
\* confirmed URL with each parameter name set to the keyword; a Set, cut to 3
CollectUrls(confirmed, kw) ==
  SubSeq(Dedup(<<confirmed>>
                 \o [i \in 1..Len(ParamNames) |->
                       SetSearchParam(confirmed, ParamNames[i], kw)],
               <<>>),
         1, MaxUrlsPerKeyword)

\* the position of the two nested loops after one more URL
NextKwPos(k, u) == IF u < MaxUrlsPerKeyword THEN k ELSE k + 1
NextUrlPos(k, u) == IF u < MaxUrlsPerKeyword THEN u + 1 ELSE 1

InitCollect ==
  /\ CaptureIdle
  /\ BatchIdle
  /\ ReqIdle
  /\ ScoreIdle
  /\ CrawlIdle
  /\ ProbeIdle
  /\ FetchIdle
  /\ postPc = "collect"
  /\ searchItems = <<>>
  /\ officialDetailUrl = Null
  /\ candidateSignals = <<>>
  /\ collectPc = "start"
  /\ collectSearchKeywords \in CollectKeywordLists
  /\ fallbackKeyword \in FallbackKeywords
  /\ confirmedUrl \in ConfirmedUrls
  /\ searchFormConfirmedUrl = confirmedUrl
  /\ collectKeywords = <<>>
  /\ kwPos = 0
  /\ urlPos = 0
  /\ attempts = <<>>
  /\ parsedProducts = <<>>
  /\ scored = <<>>
  /\ collectReturn = Null
  /\ collectContextOpen = FALSE
  /\ lastVisit = Null
  /\ oracleCalls = 0

\* no keyword and no fallback keyword: the function returns at once
CollectNoKeywords ==
  /\ collectPc = "start"
  /\ CollectKeywordsOf(collectSearchKeywords, fallbackKeyword) = <<>>
  /\ collectReturn' = [items |-> <<>>, reason |-> "no_keywords"]
  /\ collectPc' = "done"
  /\ UNCHANGED << collectSearchKeywords, fallbackKeyword, confirmedUrl,
                  collectKeywords, kwPos, urlPos, attempts, parsedProducts,
                  scored, collectContextOpen, lastVisit, oracleCalls >>
  /\ UNCHANGED notCollectVars

\* `new URL(confirmedUrl)` throws before the browser is launched
CollectBadUrl ==
  /\ collectPc = "start"
  /\ CollectKeywordsOf(collectSearchKeywords, fallbackKeyword) /= <<>>
  /\ confirmedUrl.kind /= "abs"
  /\ collectKeywords' = CollectKeywordsOf(collectSearchKeywords, fallbackKeyword)
  /\ collectPc' = "threw"
  /\ UNCHANGED << collectSearchKeywords, fallbackKeyword, confirmedUrl, kwPos,
                  urlPos, attempts, parsedProducts, scored, collectReturn,
                  collectContextOpen, lastVisit, oracleCalls >>
  /\ UNCHANGED notCollectVars

\* the browser is launched and the loop over the keywords starts
CollectOpen ==
  /\ collectPc = "start"
  /\ CollectKeywordsOf(collectSearchKeywords, fallbackKeyword) /= <<>>
  /\ confirmedUrl.kind = "abs"
  /\ collectKeywords' = CollectKeywordsOf(collectSearchKeywords, fallbackKeyword)
  /\ collectContextOpen' = TRUE
  /\ kwPos' = 1
  /\ urlPos' = 1
  /\ collectPc' = "browse"
  /\ UNCHANGED << collectSearchKeywords, fallbackKeyword, confirmedUrl,
                  attempts, parsedProducts, scored, collectReturn,
                  lastVisit, oracleCalls >>
  /\ UNCHANGED notCollectVars

\* `main.replace(/\s+/g, " ").trim().slice(0, 8000)`
PageTextOf(main) == trim(CollapseWs(main))

\* `networkChunks.join("\n---\n").slice(0, 10000)`
RECURSIVE NetworkTextOf(_)
NetworkTextOf(chunks) ==
  IF chunks = <<>> THEN <<>>
  ELSE IF Len(chunks) = 1 THEN chunks[1]
  ELSE chunks[1] \o <<"|">> \o NetworkTextOf(Tail(chunks))

\* the main text a result page can show, and the chunks its responses give
PageMains == { <<>>, <<" ">>, <<" ", "t">> }
ChunkLists == { <<>>, << <<"n">> >> }

\* every page load is recorded
RecordsAttemptAlways(pageText, networkText) == TRUE

\* `if (!pageText && !networkText) continue;`
RecordsAttempt(pageText, networkText) ==
  ~(pageText = <<>> /\ networkText = <<>>)

\* a result page is loaded and shows text or network text: one attempt
CollectVisitText ==
  /\ collectPc = "browse"
  /\ kwPos <= Len(collectKeywords)
  /\ \E main \in PageMains, chunks \in ChunkLists :
       /\ RecordsAttempt(PageTextOf(main), NetworkTextOf(chunks))
       /\ lastVisit' = [pageText |-> PageTextOf(main),
                        networkText |-> NetworkTextOf(chunks),
                        threw |-> FALSE]
  /\ attempts' =
       Append(attempts,
              [url |-> CollectUrls(confirmedUrl, collectKeywords[kwPos])[urlPos],
               keyword |-> collectKeywords[kwPos]])
  /\ kwPos' = NextKwPos(kwPos, urlPos)
  /\ urlPos' = NextUrlPos(kwPos, urlPos)
  /\ UNCHANGED << collectPc, collectSearchKeywords, fallbackKeyword,
                  confirmedUrl, collectKeywords, parsedProducts, scored,
                  collectReturn, collectContextOpen, oracleCalls >>
  /\ UNCHANGED notCollectVars

\* a result page shows no text (`continue`) or its load throws (the inner
\* catch ignores it): no attempt is recorded
CollectVisitEmpty ==
  /\ collectPc = "browse"
  /\ kwPos <= Len(collectKeywords)
  /\ \/ \E main \in PageMains, chunks \in ChunkLists :
          /\ ~RecordsAttempt(PageTextOf(main), NetworkTextOf(chunks))
          /\ lastVisit' = [pageText |-> PageTextOf(main),
                           networkText |-> NetworkTextOf(chunks),
                           threw |-> FALSE]
     \/ lastVisit' = [pageText |-> <<>>, networkText |-> <<>>, threw |-> TRUE]
  /\ kwPos' = NextKwPos(kwPos, urlPos)
  /\ urlPos' = NextUrlPos(kwPos, urlPos)
  /\ UNCHANGED << collectPc, collectSearchKeywords, fallbackKeyword,
                  confirmedUrl, collectKeywords, attempts, parsedProducts,
                  scored, collectReturn, collectContextOpen, oracleCalls >>
  /\ UNCHANGED notCollectVars

\* a `finally` block that leaves the context as it is
ContextAfterCloseSkipped(open) == open

\* `await context.close()`: the context is closed
ContextAfterClose(open) == FALSE

\* both loops are over: the `finally` block closes the context and the browser
CollectCloseContext ==
  /\ collectPc = "browse"
  /\ kwPos > Len(collectKeywords)
  /\ collectContextOpen' = ContextAfterClose(collectContextOpen)
  /\ collectPc' = "closed"
  /\ lastVisit' = Null
  /\ UNCHANGED << collectSearchKeywords, fallbackKeyword, confirmedUrl,
                  collectKeywords, kwPos, urlPos, attempts, parsedProducts,
                  scored, collectReturn, oracleCalls >>
  /\ UNCHANGED notCollectVars

\* no page gave text
CollectNoAttemptText ==
  /\ collectPc = "closed"
  /\ attempts = <<>>
  /\ collectReturn' = [items |-> <<>>, reason |-> "no_attempt_text"]
  /\ collectPc' = "done"
  /\ UNCHANGED << collectSearchKeywords, fallbackKeyword, confirmedUrl,
                  collectKeywords, kwPos, urlPos, attempts, parsedProducts,
                  scored, collectContextOpen, lastVisit, oracleCalls >>
  /\ UNCHANGED notCollectVars

\* the oracle answers and its items are cleaned, scored, sorted and cut
CollectParse ==
  /\ collectPc = "closed"
  /\ attempts /= <<>>
  /\ \E parsed \in OracleOutputs :
       /\ parsedProducts' = parsed
       /\ \E list \in { ScoredItems(parsed, confirmedUrl, collectKeywords,
                                    fallbackKeyword) } :
            /\ scored' = list
            /\ \E sliced \in { Slice(SortByScore(list), MaxItems) } :
                 collectReturn' =
                   [items |-> sliced,
                    reason |-> IF Len(sliced) > 0
                                 THEN "ok" ELSE "no_products_after_parse"]
  /\ collectPc' = "done"
  /\ oracleCalls' = oracleCalls + 1
  /\ UNCHANGED << collectSearchKeywords, fallbackKeyword, confirmedUrl,
                  collectKeywords, kwPos, urlPos, attempts,
                  collectContextOpen, lastVisit >>
  /\ UNCHANGED notCollectVars

\* the oracle call throws (no API key, a non-2xx answer): so does the function
CollectOracleThrows ==
  /\ collectPc = "closed"
  /\ attempts /= <<>>
  /\ collectPc' = "threw"
  /\ oracleCalls' = oracleCalls + 1
  /\ UNCHANGED << collectSearchKeywords, fallbackKeyword, confirmedUrl,
                  collectKeywords, kwPos, urlPos, attempts, parsedProducts,
                  scored, collectReturn, collectContextOpen, lastVisit >>
  /\ UNCHANGED notCollectVars

\* a find that returns the last match
FindAttemptLast(list, pickedKeyword) ==
  LET matches == { j \in 1..Len(list) :
                     toLowerCase(trim(list[j].keyword)) = pickedKeyword }
  IN IF matches = {} THEN Null
     ELSE list[CHOOSE j \in matches : \A k \in matches : k <= j].url

\* `debug.attempts.find((a) => a.keyword.trim().toLowerCase() === pickedKeyword)?.url`
FindAttempt(list, pickedKeyword) ==
  LET matches == { j \in 1..Len(list) :
                     toLowerCase(trim(list[j].keyword)) = pickedKeyword }
  IN IF matches = {} THEN Null
     ELSE list[CHOOSE j \in matches : \A k \in matches : j <= k].url

\* `(firstResolved?.keywordUsed || "").trim().toLowerCase()`, firstResolved
\* the first item with a non-empty url
PickedKeyword(items) ==
  LET resolved == SelectSeq(items, LAMBDA item : trim(item.url) /= <<>>)
  IN IF resolved = <<>> THEN <<>>
     ELSE toLowerCase(trim(Head(resolved).keywordUsed))

\* the value of searchFormConfirmedUrl after the collector has returned
ConfirmedUrlAfter(confirmed, items, list) ==
  IF items = <<>> \/ PickedKeyword(items) = <<>> THEN confirmed
  ELSE IF FindAttempt(list, PickedKeyword(items)) = Null THEN confirmed
  ELSE FindAttempt(list, PickedKeyword(items))

\* POST takes the list of the collector and narrows the confirmed URL
PostConfirmUrl ==
  /\ postPc = "collect"
  /\ collectPc = "done"
  /\ searchFormConfirmedUrl' =
       ConfirmedUrlAfter(searchFormConfirmedUrl, collectReturn.items, attempts)
  /\ postPc' = "confirm"
  /\ UNCHANGED << searchItems, officialDetailUrl, candidateSignals >>
  /\ UNCHANGED notPostVars

\* the collector threw: the `catch` block of POST answers with status 500
PostFails ==
  /\ postPc = "collect"
  /\ collectPc = "threw"
  /\ postPc' = "failed"
  /\ UNCHANGED << searchItems, officialDetailUrl, candidateSignals,
                  searchFormConfirmedUrl >>
  /\ UNCHANGED notPostVars

NextCollect ==
  \/ CollectNoKeywords
  \/ CollectBadUrl
  \/ CollectOpen
  \/ CollectVisitText
  \/ CollectVisitEmpty
  \/ CollectCloseContext
  \/ CollectNoAttemptText
  \/ CollectParse
  \/ CollectOracleThrows
  \/ PostConfirmUrl
  \/ PostFails

SpecCollect == InitCollect /\ [][NextCollect]_vars


(***************************************************************************)
(* POST: the probe of the search form, then the collector, one after the   *)
(* other.                                                                  *)
(***************************************************************************)
\* verified.productKeywords, of which POST reads the first three: no
\* keyword, a padded one, a repeated one
ProductKeywordLists ==
  { <<>>,
    << <<" ", "a">> >>,
    << <<"B">>, <<" ">>, <<"b">> >> }

\* `(verified.productKeywords?.[i] ?? "").trim()`
KeywordOrBlank(list, i) == IF i <= Len(list) THEN trim(list[i]) ELSE <<>>

\* searchKeywords of POST: the first keyword, then the third or else the
\* second when it differs from the first
PostSearchKeywords(productKeywords) ==
  LET k0 == KeywordOrBlank(productKeywords, 1)
      k1 == KeywordOrBlank(productKeywords, 2)
      k2 == KeywordOrBlank(productKeywords, 3)
      first == IF k0 /= <<>> THEN <<k0>> ELSE <<>>
      picked == IF k2 /= <<>> /\ toLowerCase(k2) /= toLowerCase(k0)
                  THEN Append(first, k2)
                ELSE IF k1 /= <<>> /\ toLowerCase(k1) /= toLowerCase(k0)
                  THEN Append(first, k1)
                ELSE first
  IN Slice(picked, 2)

\* a field of info that is a non-empty URL string, or Null
UrlField(info, field) ==
  IF field \in DOMAIN info /\ info[field] /= Null /\ info[field] /= EmptyUrl
    THEN info[field] ELSE Null

pickSearchFormConfirmedUrl(info) ==
  IF info = Null THEN Null
  ELSE IF UrlField(info, "resultUrl") /= Null THEN UrlField(info, "resultUrl")
  ELSE UrlField(info, "action")

\* `pickSearchFormConfirmedUrl(searchFormInfo?.info)`
PickedUrl == pickSearchFormConfirmedUrl(IF probeReturn = Null THEN Null
                                                             ELSE probeReturn.info)

\* the homepages of POST: without an input, with a form that a trigger
\* brings up, with a form
PostHomeDoms == { DomNoInput, Dom("no_form", <<"i">>, "ok"), DomOk }

InitPost ==
  /\ CaptureIdle
  /\ BatchIdle
  /\ ReqIdle
  /\ ScoreIdle
  /\ CrawlIdle
  /\ CollectIdle
  /\ FetchIdle
  /\ postPc = "probe"
  /\ searchItems = <<>>
  /\ officialDetailUrl = Null
  /\ candidateSignals = <<>>
  /\ searchFormConfirmedUrl = Null
  /\ probePc = "start"
  /\ searchKeywords \in { PostSearchKeywords(list) : list \in ProductKeywordLists }
  /\ homeDom \in PostHomeDoms
  /\ lateDom \in {homeDom, DomOk}
  /\ resultDom \in ResultDoms
  /\ keywords = <<>>
  /\ kwIndex = 0
  /\ pageUrl = Null
  /\ dom = Null
  /\ lastInfo = Null
  /\ probeHistory = <<>>
  /\ probeContextOpen = FALSE
  /\ probeReturn = Null
  /\ probeLog = <<>>
  /\ navigations = <<>>
  /\ probeThrew = FALSE

\* the probe has returned with a URL: the collector is called with it
PostStartCollect ==
  /\ postPc = "probe"
  /\ probePc = "done"
  /\ PickedUrl /= Null
  /\ searchFormConfirmedUrl' = PickedUrl
  /\ confirmedUrl' = PickedUrl
  /\ collectSearchKeywords' = searchKeywords
  /\ fallbackKeyword' = ProductName
  /\ collectPc' = "start"
  /\ postPc' = "collect"
  /\ UNCHANGED << collectKeywords, kwPos, urlPos, attempts, parsedProducts,
                  scored, collectReturn, collectContextOpen, lastVisit,
                  oracleCalls >>
  /\ UNCHANGED << searchItems, officialDetailUrl, candidateSignals >>
  /\ UNCHANGED << crawlVars, probeVars, fetchVars, scoreVars, reqVars,
                  batchVars, captureVars >>

\* the probe has returned without a URL: the product list is empty
PostSkipCollect ==
  /\ postPc = "probe"
  /\ probePc = "done"
  /\ PickedUrl = Null
  /\ postPc' = "confirm"
  /\ UNCHANGED << searchItems, officialDetailUrl, candidateSignals,
                  searchFormConfirmedUrl >>
  /\ UNCHANGED notPostVars

NextPost ==
  \/ NextProbe
  \/ PostStartCollect
  \/ PostSkipCollect
  \/ CollectOpen
  \/ CollectVisitText
  \/ CollectVisitEmpty
  \/ CollectCloseContext
  \/ CollectNoAttemptText
  \/ CollectParse
  \/ CollectOracleThrows
  \/ PostConfirmUrl
  \/ PostFails

SpecPost == InitPost /\ [][NextPost]_vars


(***************************************************************************)
(* fetchProductSignals: the names and the prices of a product page.        *)
(***************************************************************************)
\* value.replace(/\s+/g, " ").trim()
normalizeName(value) == trim(CollapseWs(value))

\* the phrases of the expression that rejects a name, in lower case; the
\* Korean words are written by their romanised names
DeniedPhrases ==
  { <<"<baesong>">>, <<"<gongji>">>, <<"<login>">>, <<"<jangbaguni>">>,
    <<"<pumjeol>">>,
    <<"s","o","l","d"," ","o","u","t">>,
    <<"w","o","r","l","d"," ","s","h","i","p","p","i","n","g">> }

isInvalidName(value) ==
  LET v == normalizeName(value)
  IN \/ v = <<>>
     \/ Len(v) <= 3
     \/ \A i \in 1..Len(v) : IsDigit(v[i])
     \/ \E phrase \in DeniedPhrases : includes(toLowerCase(v), phrase)

\* the places a title is read from, in the order of titleCandidates
TitleSelectors ==
  << "h1", "h2", ".product_name", ".prd_name", ".product_title",
     ".product-name", ".title", "og:title", "document.title" >>

\* titleCandidates of a page: pickText trims, normalizeName normalizes
titleCandidates(page) ==
  [i \in 1..Len(TitleSelectors) |-> normalizeName(trim(page.titles[TitleSelectors[i]]))]

\* titleCandidates.find((value) => !isInvalidName(value)) || ""
ResolveTitle(candidates) ==
  IF \A i \in 1..Len(candidates) : isInvalidName(candidates[i])
    THEN <<>>
    ELSE candidates[CHOOSE i \in 1..Len(candidates) :
                      /\ ~isInvalidName(candidates[i])
                      /\ \A j \in 1..(i - 1) : isInvalidName(candidates[j])]

\* the texts of the first six selectors that are not empty, joined
RECURSIVE JoinWith(_, _)
JoinWith(list, sep) ==
  IF list = <<>> THEN <<>>
  ELSE IF Len(list) = 1 THEN Head(list)
  ELSE Head(list) \o sep \o JoinWith(Tail(list), sep)

titleBlockTextOf(page) ==
  JoinWith(SelectSeq([i \in 1..6 |-> trim(page.titles[TitleSelectors[i]])],
                     LAMBDA t : t /= <<>>),
           <<" ", "|", " ">>)

\* Number(digits): the value of a string of digits, 0 for the empty string
RECURSIVE ToNumber(_)
ToNumber(digits) ==
  IF digits = <<>> THEN 0
  ELSE 10 * ToNumber(SubSeq(digits, 1, Len(digits) - 1))
         + (CHOOSE d \in 0..9 : ToString(d) = digits[Len(digits)])

\* String(n) of a natural number
RECURSIVE NumberToString(_)
NumberToString(n) ==
  IF n < 10 THEN <<ToString(n)>>
  ELSE NumberToString(n \div 10) \o <<ToString(n % 10)>>

\* the length of the run of digits of s that starts at position i
RECURSIVE DigitRun(_, _)
DigitRun(s, i) ==
  IF i > Len(s) \/ ~IsDigit(s[i]) THEN 0 ELSE 1 + DigitRun(s, i + 1)

\* the number of groups `,[0-9]{3}` of s that start at position i
RECURSIVE CommaGroups(_, _)
CommaGroups(s, i) ==
  IF /\ i + 3 <= Len(s) /\ s[i] = ","
     /\ IsDigit(s[i + 1]) /\ IsDigit(s[i + 2]) /\ IsDigit(s[i + 3])
    THEN 1 + CommaGroups(s, i + 4)
    ELSE 0

\* an expression without the grouped alternative: /([0-9]+)/
AmountMatchLenDigitsOnly(s, i) == DigitRun(s, i)

\* the length of the match of /([0-9]{1,3}(?:,[0-9]{3})+|[0-9]+)/ at
\* position i of s, 0 when there is none: the grouped alternative first
AmountMatchLen(s, i) ==
  LET run == DigitRun(s, i)
  IN IF run = 0 THEN 0
     ELSE IF run <= 3 /\ CommaGroups(s, i + run) > 0
       THEN run + 4 * CommaGroups(s, i + run)
       ELSE run

\* value.match(/.../g): the matches from position i on, left to right
RECURSIVE AmountMatches(_, _)
AmountMatches(s, i) ==
  IF i > Len(s) THEN <<>>
  ELSE IF AmountMatchLen(s, i) = 0 THEN AmountMatches(s, i + 1)
  ELSE <<SubSeq(s, i, i + AmountMatchLen(s, i) - 1)>>
         \o AmountMatches(s, i + AmountMatchLen(s, i))

\* the first of a non-empty list of numbers
FirstOf(nums) == nums[1]

\* Math.max of a non-empty list of numbers
MaxOf(nums) ==
  CHOOSE n \in { nums[i] : i \in 1..Len(nums) } :
    \A i \in 1..Len(nums) : nums[i] <= n

\* normalizePrice of the page script: the largest amount of 1000 or more,
\* or the largest amount, as a string of digits
normalizePrice(value) ==
  LET matches == AmountMatches(value, 1)
      nums == [i \in 1..Len(matches) |-> ToNumber(SelectSeq(matches[i], IsDigit))]
      filtered == SelectSeq(nums, LAMBDA n : n >= 1000)
  IN IF nums = <<>> THEN <<>>
     ELSE NumberToString(IF filtered /= <<>> THEN MaxOf(filtered) ELSE MaxOf(nums))

\* num.toLocaleString("ko-KR") of a natural number: groups of three digits
RECURSIVE toLocaleString(_)
toLocaleString(n) ==
  IF n < 1000 THEN NumberToString(n)
  ELSE LET low == NumberToString(n % 1000)
       IN toLocaleString(n \div 1000) \o <<",">>
            \o [i \in 1..(3 - Len(low)) |-> "0"] \o low

\* formatPrice: the digits of the value as a won amount, "" for 0
formatPrice(value) ==
  LET num == ToNumber(SelectSeq(value, IsDigit))
  IN IF value = <<>> \/ num <= 0 THEN <<>>
     ELSE toLocaleString(num) \o <<WonChar>>

\* detectCurrency: the won first, then the dollar; the texts of the model
\* hold no other currency
detectCurrency(value) ==
  IF \E i \in 1..Len(value) : value[i] \in {WonSign, WonChar} THEN "KRW"
  ELSE IF \E i \in 1..Len(value) : value[i] = "$" THEN "USD"
  ELSE ""

\* the length of the run of [0-9,\.] of s that starts at position i
RECURSIVE AmountRun(_, _)
AmountRun(s, i) ==
  IF i > Len(s) \/ ~(IsDigit(s[i]) \/ s[i] \in {",", "."}) THEN 0
  ELSE 1 + AmountRun(s, i + 1)

\* the length of the match of /[$]\s?[0-9][0-9,\.]*/ at position i of s;
\* the texts of the model hold no currency code, the other alternative
SymbolMatchLen(s, i) ==
  IF s[i] /= "$" THEN 0
  ELSE IF i + 1 <= Len(s) /\ IsDigit(s[i + 1]) THEN 1 + AmountRun(s, i + 1)
  ELSE IF i + 2 <= Len(s) /\ IsSpace(s[i + 1]) /\ IsDigit(s[i + 2])
    THEN 2 + AmountRun(s, i + 2)
  ELSE 0

\* extractCurrencyPrice: the first match, trimmed, or ""
extractCurrencyPrice(lines) ==
  IF \A i \in 1..Len(lines) : SymbolMatchLen(lines, i) = 0 THEN <<>>
  ELSE LET i == CHOOSE k \in 1..Len(lines) :
                  /\ SymbolMatchLen(lines, k) > 0
                  /\ \A j \in 1..(k - 1) : SymbolMatchLen(lines, j) = 0
       IN trim(SubSeq(lines, i, i + SymbolMatchLen(lines, i) - 1))

\* `a || b` on strings
OrElse(a, b) == IF a /= <<>> THEN a ELSE b

\* the product pages of the model.  A page holds what the page script reads:
\* the text of each title selector, the raw prices the price selectors
\* give, the main text and the price lines found in it
ProductUrl == Url("abs", SiteHost, <<"/", "p">>, <<>>)
OtherUrl == Url("abs", SiteHost, <<"/", "o">>, <<>>)

TitleTexts ==
  { <<>>,
    <<"a", "b", "c">>,
    <<"1", "2", "3", "4">>,
    <<"S", "o", "l", "d", " ", " ", "O", "u", "t">>,
    <<"<baesong>", "a", "b", "c">>,
    <<"L", "a", "m", "p", " ", " ", "X">>,
    <<"D", "e", "s", "k">> }

PriceTexts ==
  { <<>>,
    <<"0">>,
    <<"5", "0", "0">>,
    <<"1", "2", ",", "0", "0", "0", WonChar>>,
    <<WonSign, "1", "2", ",", "0", "0", "0">>,
    <<"1", "2", "0", "0", "0">>,
    <<"1", ",", "2", "3", "4", ",", "5", "6", "7", WonChar>>,
    <<"1", "2", "3", "4", ",", "0", "0", "0">>,
    <<"9", ",", "9", "0", "0", " ", "1", "2", ",", "0", "0", "0", WonChar>>,
    <<"1", "2", ".", "5", "0">>,
    <<"$", "1", "2", ".", "5", "0">>,
    <<"a">> }

Titles(h1, og, doc) ==
  [sel \in { TitleSelectors[i] : i \in 1..Len(TitleSelectors) } |->
     CASE sel = "h1" -> h1
       [] sel = "og:title" -> og
       [] sel = "document.title" -> doc
       [] OTHER -> <<>>]

ProductPage(titles, rawList, rawSale, main, lines) ==
  [titles |-> titles, rawListPrice |-> rawList, rawSalePrice |-> rawSale,
   main |-> main, priceBlockText |-> lines,
   imageSrc |-> <<" ", "i">>]

ProductPages ==
  { ProductPage(Titles(h1, og, doc), <<"5", "0", "0">>, <<>>, <<>>, <<>>) :
      h1 \in TitleTexts, og \in { <<>>, <<"D", "e", "s", "k">> },
      doc \in TitleTexts }
  \cup
  { ProductPage(Titles(<<"D", "e", "s", "k">>, <<>>, <<>>), list, sale, main, main) :
      list \in PriceTexts,
      sale \in { <<>>, <<"9", ",", "9", "0", "0", WonChar>> },
      main \in { <<>>, <<" ", "$", " ", "7", " ">>, <<"7", " ", "$">>,
                 <<"$", "7", " ", " ", "5", "$">> } }

\* /([0-9]{1,3}(?:,[0-9]{3})+|\d+)\s*(won|won sign|\$)/ matches in the
\* line: a digit, then whitespace or none, then a currency sign (the texts
\* of the model hold no currency code)
HasAmountWithCurrency(line) ==
  \E i \in 1..Len(line) :
    /\ IsDigit(line[i])
    /\ \E j \in (i + 1)..Len(line) :
         /\ line[j] \in {WonChar, WonSign, "$"}
         /\ \A k \in (i + 1)..(j - 1) : IsSpace(line[k])

\* priceLines: the lines of the main text with an amount and a currency,
\* whitespace collapsed; the main text of a page of the model is one line
PriceLinesOf(main) ==
  IF HasAmountWithCurrency(main) THEN trim(CollapseWs(main)) ELSE <<>>

\* what page.evaluate returns for a page
EvaluatePage(page) ==
  [title |-> ResolveTitle(titleCandidates(page)),
   listPrice |-> normalizePrice(page.rawListPrice),
   salePrice |-> normalizePrice(page.rawSalePrice),
   text |-> trim(CollapseWs(page.main)),
   titleBlockText |-> titleBlockTextOf(page),
   priceLines |-> PriceLinesOf(page.main),
   priceBlockText |-> page.priceBlockText,
   imageSrc |-> page.imageSrc,
   currencyHint |-> IF detectCurrency(page.rawListPrice) /= ""
                      THEN detectCurrency(page.rawListPrice)
                    ELSE IF detectCurrency(page.rawSalePrice) /= ""
                      THEN detectCurrency(page.rawSalePrice)
                    ELSE detectCurrency(page.main),
   rawListPrice |-> page.rawListPrice,
   rawSalePrice |-> page.rawSalePrice]

\* the price of the returned record: the won amount, or the foreign price
SignalPrice(result, normalizedPrice, rawPrice) ==
  IF result.currencyHint /= "" /\ result.currencyHint /= "KRW"
    THEN OrElse(extractCurrencyPrice(result.priceLines), trim(rawPrice))
    ELSE formatPrice(normalizedPrice)

\* the record of the `try` block and the record of the `catch` block
SignalsOf(url, result) ==
  [url |-> url, text |-> result.text,
   priceBlockText |-> result.priceBlockText,
   titleBlockText |-> result.titleBlockText,
   priceLines |-> result.priceLines, currencyHint |-> result.currencyHint,
   imageSrc |-> trim(result.imageSrc),
   productName |-> result.title,
   listPrice |-> SignalPrice(result, result.listPrice, result.rawListPrice),
   salePrice |-> SignalPrice(result, result.salePrice, result.rawSalePrice),
   score |-> 0]

EmptySignals(url) ==
  [url |-> url, text |-> <<>>, priceBlockText |-> <<>>,
   titleBlockText |-> <<>>, priceLines |-> <<>>, currencyHint |-> "",
   imageSrc |-> <<>>, productName |-> <<>>, listPrice |-> <<>>,
   salePrice |-> <<>>, score |-> 0]

\* the search hits of POST and the detail URL it settles on
SearchHitLists ==
  { << [link |-> ProductUrl, title |-> t, snippet |-> <<"x">>],
       [link |-> OtherUrl, title |-> <<"D", "e", "s", "k">>, snippet |-> <<>>] >> :
      t \in TitleTexts }

DetailUrls == { Null, ProductUrl, Url("abs", SiteHost, <<"/", "u">>, <<>>) }

\* candidateSignals of POST: one record when there is a detail URL
CandidateSignalsOf(items, detailUrl) ==
  IF detailUrl = Null THEN <<>>
  ELSE LET found == SelectSeq(items, LAMBDA item : item.link = detailUrl)
           snippetText == IF found = <<>> THEN <<>> ELSE Head(found).snippet
           titleText == IF found = <<>> THEN <<>> ELSE Head(found).title
       IN << [url |-> detailUrl, text |-> snippetText,
              priceBlockText |-> snippetText,
              titleBlockText |-> titleText, priceLines |-> snippetText,
              currencyHint |-> "", imageSrc |-> <<>>,
              productName |-> titleText,
              listPrice |-> <<>>, salePrice |-> <<>>, score |-> 0] >>

InitSignals ==
  /\ CaptureIdle
  /\ BatchIdle
  /\ ReqIdle
  /\ ScoreIdle
  /\ CrawlIdle
  /\ ProbeIdle
  /\ CollectIdle
  /\ fetchPc = "start"
  /\ fetchUrl \in { ProductUrl, OtherUrl }
  /\ fetchPage \in ProductPages
  /\ fetchReturn = Null
  /\ fetchBrowserOpen = FALSE
  /\ fetchContextOpen = FALSE
  /\ fetchFailed = FALSE
  /\ postPc = "search"
  /\ searchFormConfirmedUrl = Null
  /\ searchItems \in SearchHitLists
  /\ officialDetailUrl \in DetailUrls
  /\ candidateSignals = <<>>

\* chromium.launch throws, before the `try`: so does the function
FetchLaunchThrows ==
  /\ fetchPc = "start"
  /\ fetchFailed' = TRUE
  /\ fetchPc' = "threw"
  /\ UNCHANGED << fetchUrl, fetchPage, fetchReturn, fetchBrowserOpen,
                  fetchContextOpen >>
  /\ UNCHANGED notFetchVars

FetchLaunch ==
  /\ fetchPc = "start"
  /\ fetchBrowserOpen' = TRUE
  /\ fetchPc' = "launched"
  /\ UNCHANGED << fetchUrl, fetchPage, fetchReturn, fetchContextOpen,
                  fetchFailed >>
  /\ UNCHANGED notFetchVars

\* browser.newContext throws, before the `try`: so does the function, and
\* the browser stays open
FetchContextThrows ==
  /\ fetchPc = "launched"
  /\ fetchFailed' = TRUE
  /\ fetchPc' = "threw"
  /\ UNCHANGED << fetchUrl, fetchPage, fetchReturn, fetchBrowserOpen,
                  fetchContextOpen >>
  /\ UNCHANGED notFetchVars

FetchNewContext ==
  /\ fetchPc = "launched"
  /\ fetchContextOpen' = TRUE
  /\ fetchPc' = "opened"
  /\ UNCHANGED << fetchUrl, fetchPage, fetchReturn, fetchBrowserOpen,
                  fetchFailed >>
  /\ UNCHANGED notFetchVars

\* context.newPage or page.goto throws, or page.evaluate does: the `catch`
\* block returns the empty record
FetchPageFails ==
  /\ fetchPc \in {"opened", "loaded"}
  /\ fetchFailed' = TRUE
  /\ fetchReturn' = EmptySignals(fetchUrl)
  /\ fetchPc' = "closing"
  /\ UNCHANGED << fetchUrl, fetchPage, fetchBrowserOpen, fetchContextOpen >>
  /\ UNCHANGED notFetchVars

FetchGoto ==
  /\ fetchPc = "opened"
  /\ fetchPc' = "loaded"
  /\ UNCHANGED << fetchUrl, fetchPage, fetchReturn, fetchBrowserOpen,
                  fetchContextOpen, fetchFailed >>
  /\ UNCHANGED notFetchVars

\* the page script runs and the record is built from its result
FetchEvaluate ==
  /\ fetchPc = "loaded"
  /\ fetchReturn' = SignalsOf(fetchUrl, EvaluatePage(fetchPage))
  /\ fetchPc' = "closing"
  /\ UNCHANGED << fetchUrl, fetchPage, fetchBrowserOpen, fetchContextOpen,
                  fetchFailed >>
  /\ UNCHANGED notFetchVars

\* the `finally` block closes the context and the browser
FetchClose ==
  /\ fetchPc = "closing"
  /\ fetchContextOpen' = FALSE
  /\ fetchBrowserOpen' = FALSE
  /\ fetchPc' = "done"
  /\ UNCHANGED << fetchUrl, fetchPage, fetchReturn, fetchFailed >>
  /\ UNCHANGED notFetchVars

\* context.close or browser.close throws in the `finally` block: the
\* function throws in place of its return.  What a close that threw leaves
\* open is not known; browser.close is not reached after context.close threw
FetchCloseThrows ==
  /\ fetchPc = "closing"
  /\ \/ fetchContextOpen' \in BOOLEAN /\ fetchBrowserOpen' = TRUE
     \/ fetchContextOpen' = FALSE /\ fetchBrowserOpen' \in BOOLEAN
  /\ fetchFailed' = TRUE
  /\ fetchReturn' = Null
  /\ fetchPc' = "threw"
  /\ UNCHANGED << fetchUrl, fetchPage >>
  /\ UNCHANGED notFetchVars

\* POST builds candidateSignals from the search hit of the detail URL
PostBuildSignals ==
  /\ postPc = "search"
  /\ candidateSignals' = CandidateSignalsOf(searchItems, officialDetailUrl)
  /\ postPc' = "signals"
  /\ UNCHANGED << searchFormConfirmedUrl, searchItems, officialDetailUrl >>
  /\ UNCHANGED notPostVars

NextSignals ==
  \/ FetchLaunchThrows
  \/ FetchLaunch
  \/ FetchContextThrows
  \/ FetchNewContext
  \/ FetchPageFails
  \/ FetchGoto
  \/ FetchEvaluate
  \/ FetchClose
  \/ FetchCloseThrows
  \/ PostBuildSignals

\* the two builders of ProductSignals records, each run once
SpecSignals == InitSignals /\ [][NextSignals]_vars


(***************************************************************************)
(* The keyword scorers, one call at a time: the arguments are drawn from   *)
(* the sets below, the call returns in one step.                           *)
(***************************************************************************)
ScoreInputs ==
  { <<>>,
    <<"x">>,
    <<"a", "a", "b", "b", "c", "c">>,
    <<"a", "a", "/", "b", "b", "/", "c", "c">>,
    <<"A", "A", "/", "b", "b">>,
    <<"a", "/", "b">>,
    <<"c", "c", "/", "a", "a">> }

ScoreKeywords ==
  { <<>>,
    <<" ">>,
    <<"a", "a">>,
    <<"A", "a", " ", "B", "B">>,
    <<"a", "a", " ", "b", "b", " ", "c", "c">>,
    <<"a", "a", " ", " ", "b", "b", " ", "z", "z">>,
    <<"a", " ", "b">>,
    <<" ", "c", "c", " ", "a", "a", " ">> }

InitScore ==
  /\ CaptureIdle
  /\ BatchIdle
  /\ ReqIdle
  /\ CrawlIdle
  /\ ProbeIdle
  /\ CollectIdle
  /\ PostIdle
  /\ FetchIdle
  /\ scorePc = "start"
  /\ scoreInput \in ScoreInputs
  /\ scoreKeyword \in ScoreKeywords
  /\ scoreResult = Null

\* scoreKeywordMatch(url, keyword)
ScoreMatchCall ==
  /\ scorePc = "start"
  /\ scoreResult' = scoreKeywordMatch(scoreInput, scoreKeyword)
  /\ scorePc' = "match"
  /\ UNCHANGED << scoreInput, scoreKeyword >>
  /\ UNCHANGED notScoreVars

\* scoreKeywordText(text, keyword)
ScoreTextCall ==
  /\ scorePc = "start"
  /\ scoreResult' = scoreKeywordText(scoreInput, scoreKeyword)
  /\ scorePc' = "text"
  /\ UNCHANGED << scoreInput, scoreKeyword >>
  /\ UNCHANGED notScoreVars

NextScore == ScoreMatchCall \/ ScoreTextCall

SpecScore == InitScore /\ [][NextScore]_vars


(***************************************************************************)
(* POST, one request from the body to the response.  Each awaited call is  *)
(* one or two steps: it starts (and is logged), then returns or throws.    *)
(* What the calls compute is left to the specifications above; here only   *)
(* the outcomes that decide the control flow of POST are kept.             *)
(***************************************************************************)
ReqEnvs == [SEARCHAPI_API_KEY : BOOLEAN, GOOGLE_API_KEY : BOOLEAN]

\* brand and product_name of the body, trimmed: non-empty or not
ReqBodies ==
  { [brand |-> TRUE, product_name |-> TRUE],
    [brand |-> FALSE, product_name |-> TRUE],
    [brand |-> TRUE, product_name |-> FALSE],
    [brand |-> FALSE, product_name |-> FALSE] }

\* sourceUrl is a URL, officialDetailUrl is a URL, searchKeywords is non-empty
ReqVerifications == [sourceUrl : BOOLEAN, detailUrl : BOOLEAN, keywords : BOOLEAN]

Response(status, body) == [status |-> status, body |-> body]

Thrown(stage, cause, message) ==
  [stage |-> stage, cause |-> cause, message |-> message]

\* the rows of the store after the catch block of POST
RowsAfterCatchInserted(n) == n + 1

RowsAfterCatch(n) == n

InitRequest ==
  /\ CaptureIdle
  /\ BatchIdle
  /\ ScoreIdle
  /\ CrawlIdle
  /\ ProbeIdle
  /\ CollectIdle
  /\ PostIdle
  /\ FetchIdle
  /\ reqPc = "validate"
  /\ reqEnv \in ReqEnvs
  /\ reqBody \in ReqBodies
  /\ reqVerified = Null
  /\ reqConfirmed = FALSE
  /\ reqThrown = Null
  /\ reqResponses = <<>>
  /\ storeRows = 0
  /\ browserLaunches = 0
  /\ stageLog = <<>>

\* `if (!brand || !productNameRaw) return ... status 400`
ReqInvalid ==
  /\ reqPc = "validate"
  /\ ~(reqBody.brand /\ reqBody.product_name)
  /\ reqResponses' =
       Append(reqResponses, Response(400, "brand and product_name are required"))
  /\ reqPc' = "responded"
  /\ UNCHANGED << reqEnv, reqBody, reqVerified, reqConfirmed, reqThrown,
                  storeRows, browserLaunches, stageLog >>
  /\ UNCHANGED notReqVars

ReqValid ==
  /\ reqPc = "validate"
  /\ reqBody.brand /\ reqBody.product_name
  /\ reqPc' = "search"
  /\ UNCHANGED << reqEnv, reqBody, reqVerified, reqConfirmed, reqThrown,
                  reqResponses, storeRows, browserLaunches, stageLog >>
  /\ UNCHANGED notReqVars

\* fetchOfficialSiteCandidates without SEARCHAPI_API_KEY
ReqSearchMissingKey ==
  /\ reqPc = "search"
  /\ ~reqEnv.SEARCHAPI_API_KEY
  /\ stageLog' = Append(stageLog, "search")
  /\ reqThrown' = Thrown("search", "missing_credential",
                         "Missing SEARCHAPI_API_KEY in env")
  /\ reqPc' = "catch"
  /\ UNCHANGED << reqEnv, reqBody, reqVerified, reqConfirmed, reqResponses,
                  storeRows, browserLaunches >>
  /\ UNCHANGED notReqVars

\* fetchOfficialSiteCandidates: the search API answers with a status outside
\* 2xx, or with an error field
ReqSearchFails ==
  /\ reqPc = "search"
  /\ reqEnv.SEARCHAPI_API_KEY
  /\ stageLog' = Append(stageLog, "search")
  /\ \E t \in { Thrown("search", "non_2xx", "SerpAPI request failed"),
                Thrown("search", "error_field", "SearchAPI error") } :
       reqThrown' = t
  /\ reqPc' = "catch"
  /\ UNCHANGED << reqEnv, reqBody, reqVerified, reqConfirmed, reqResponses,
                  storeRows, browserLaunches >>
  /\ UNCHANGED notReqVars

ReqSearchOk ==
  /\ reqPc = "search"
  /\ reqEnv.SEARCHAPI_API_KEY
  /\ stageLog' = Append(stageLog, "search")
  /\ reqPc' = "verify"
  /\ UNCHANGED << reqEnv, reqBody, reqVerified, reqConfirmed, reqThrown,
                  reqResponses, storeRows, browserLaunches >>
  /\ UNCHANGED notReqVars

\* verifyOfficialSiteWithGemini without GOOGLE_API_KEY
ReqVerifyMissingKey ==
  /\ reqPc = "verify"
  /\ ~reqEnv.GOOGLE_API_KEY
  /\ stageLog' = Append(stageLog, "verify")
  /\ reqThrown' = Thrown("verify", "missing_credential",
                         "Missing GOOGLE_API_KEY in env")
  /\ reqPc' = "catch"
  /\ UNCHANGED << reqEnv, reqBody, reqVerified, reqConfirmed, reqResponses,
                  storeRows, browserLaunches >>
  /\ UNCHANGED notReqVars

\* verifyOfficialSiteWithGemini: the oracle answers with a status outside 2xx
ReqVerifyFails ==
  /\ reqPc = "verify"
  /\ reqEnv.GOOGLE_API_KEY
  /\ stageLog' = Append(stageLog, "verify")
  /\ reqThrown' = Thrown("verify", "non_2xx", "Gemini request failed")
  /\ reqPc' = "catch"
  /\ UNCHANGED << reqEnv, reqBody, reqVerified, reqConfirmed, reqResponses,
                  storeRows, browserLaunches >>
  /\ UNCHANGED notReqVars

\* the verification returns; candidateSignals has one record when
\* officialDetailUrl is a URL and none otherwise
ReqVerifyOk ==
  /\ reqPc = "verify"
  /\ reqEnv.GOOGLE_API_KEY
  /\ stageLog' = Append(stageLog, "verify")
  /\ \E v \in ReqVerifications :
       /\ reqVerified' = v
       /\ reqPc' = IF v.detailUrl THEN "parse" ELSE "probe"
  /\ UNCHANGED << reqEnv, reqBody, reqConfirmed, reqThrown, reqResponses,
                  storeRows, browserLaunches >>
  /\ UNCHANGED notReqVars

\* parseProductInfoWithGemini on the one candidate
ReqParseOk ==
  /\ reqPc = "parse"
  /\ stageLog' = Append(stageLog, "parse")
  /\ reqPc' = "probe"
  /\ UNCHANGED << reqEnv, reqBody, reqVerified, reqConfirmed, reqThrown,
                  reqResponses, storeRows, browserLaunches >>
  /\ UNCHANGED notReqVars

ReqParseFails ==
  /\ reqPc = "parse"
  /\ stageLog' = Append(stageLog, "parse")
  /\ reqThrown' = Thrown("parse", "non_2xx", "Gemini request failed")
  /\ reqPc' = "catch"
  /\ UNCHANGED << reqEnv, reqBody, reqVerified, reqConfirmed, reqResponses,
                  storeRows, browserLaunches >>
  /\ UNCHANGED notReqVars

\* `sourceUrl ? await checkSearchFormAvailability(...) : null`, and the
\* return of checkSearchFormAvailability before the launch when no keyword
\* is left: searchFormConfirmedUrl is null and the collector is not called
ReqProbeSkipped ==
  /\ reqPc = "probe"
  /\ ~(reqVerified.sourceUrl /\ reqVerified.keywords)
  /\ stageLog' = IF reqVerified.sourceUrl THEN Append(stageLog, "probe")
                                          ELSE stageLog
  /\ reqConfirmed' = FALSE
  /\ reqPc' = "insert"
  /\ UNCHANGED << reqEnv, reqBody, reqVerified, reqThrown, reqResponses,
                  storeRows, browserLaunches >>
  /\ UNCHANGED notReqVars

\* checkSearchFormAvailability: chromium.launch
ReqProbeLaunch ==
  /\ reqPc = "probe"
  /\ reqVerified.sourceUrl /\ reqVerified.keywords
  /\ stageLog' = Append(stageLog, "probe")
  /\ browserLaunches' = browserLaunches + 1
  /\ reqPc' = "probing"
  /\ UNCHANGED << reqEnv, reqBody, reqVerified, reqConfirmed, reqThrown,
                  reqResponses, storeRows >>
  /\ UNCHANGED notReqVars

\* browser.newContext of the probe throws, outside its try block
ReqProbeThrows ==
  /\ reqPc = "probing"
  /\ reqThrown' = Thrown("probe", "browser", "browser.newContext failed")
  /\ reqPc' = "catch"
  /\ UNCHANGED << reqEnv, reqBody, reqVerified, reqConfirmed, reqResponses,
                  storeRows, browserLaunches, stageLog >>
  /\ UNCHANGED notReqVars

\* the probe returns; pickSearchFormConfirmedUrl gives a URL or null
ReqProbeReturns ==
  /\ reqPc = "probing"
  /\ \E url \in BOOLEAN :
       /\ reqConfirmed' = url
       /\ reqPc' = IF url THEN "collect" ELSE "insert"
  /\ UNCHANGED << reqEnv, reqBody, reqVerified, reqThrown, reqResponses,
                  storeRows, browserLaunches, stageLog >>
  /\ UNCHANGED notReqVars

\* collectSearchFormProducts: `new URL(confirmedUrl)` throws
ReqCollectBadUrl ==
  /\ reqPc = "collect"
  /\ stageLog' = Append(stageLog, "collect")
  /\ reqThrown' = Thrown("collect", "invalid_url", "Invalid URL")
  /\ reqPc' = "catch"
  /\ UNCHANGED << reqEnv, reqBody, reqVerified, reqConfirmed, reqResponses,
                  storeRows, browserLaunches >>
  /\ UNCHANGED notReqVars

\* collectSearchFormProducts: chromium.launch
ReqCollectLaunch ==
  /\ reqPc = "collect"
  /\ stageLog' = Append(stageLog, "collect")
  /\ browserLaunches' = browserLaunches + 1
  /\ reqPc' = "collecting"
  /\ UNCHANGED << reqEnv, reqBody, reqVerified, reqConfirmed, reqThrown,
                  reqResponses, storeRows >>
  /\ UNCHANGED notReqVars

\* no attempt gave text: the collector returns without asking the oracle
ReqCollectNoText ==
  /\ reqPc = "collecting"
  /\ reqPc' = "insert"
  /\ UNCHANGED << reqEnv, reqBody, reqVerified, reqConfirmed, reqThrown,
                  reqResponses, storeRows, browserLaunches, stageLog >>
  /\ UNCHANGED notReqVars

\* parseSearchFormProductsWithGemini returns
ReqCollectOracleOk ==
  /\ reqPc = "collecting"
  /\ stageLog' = Append(stageLog, "oracle")
  /\ reqPc' = "insert"
  /\ UNCHANGED << reqEnv, reqBody, reqVerified, reqConfirmed, reqThrown,
                  reqResponses, storeRows, browserLaunches >>
  /\ UNCHANGED notReqVars

\* parseSearchFormProductsWithGemini: the oracle answers with a status
\* outside 2xx
ReqCollectOracleFails ==
  /\ reqPc = "collecting"
  /\ stageLog' = Append(stageLog, "oracle")
  /\ reqThrown' = Thrown("oracle", "non_2xx", "Gemini request failed")
  /\ reqPc' = "catch"
  /\ UNCHANGED << reqEnv, reqBody, reqVerified, reqConfirmed, reqResponses,
                  storeRows, browserLaunches >>
  /\ UNCHANGED notReqVars

\* the insert succeeds
ReqInsertOk ==
  /\ reqPc = "insert"
  /\ stageLog' = Append(stageLog, "insert")
  /\ storeRows' = storeRows + 1
  /\ reqResponses' = Append(reqResponses, Response(200, "ok"))
  /\ reqPc' = "responded"
  /\ UNCHANGED << reqEnv, reqBody, reqVerified, reqConfirmed, reqThrown,
                  browserLaunches >>
  /\ UNCHANGED notReqVars

\* the store answers the insert with an error
ReqInsertError ==
  /\ reqPc = "insert"
  /\ stageLog' = Append(stageLog, "insert")
  /\ reqResponses' = Append(reqResponses, Response(500, "insert error"))
  /\ reqPc' = "responded"
  /\ UNCHANGED << reqEnv, reqBody, reqVerified, reqConfirmed, reqThrown,
                  storeRows, browserLaunches >>
  /\ UNCHANGED notReqVars

\* the catch block of POST
ReqCatch ==
  /\ reqPc = "catch"
  /\ reqResponses' = Append(reqResponses, Response(500, reqThrown.message))
  /\ storeRows' = RowsAfterCatch(storeRows)
  /\ reqPc' = "responded"
  /\ UNCHANGED << reqEnv, reqBody, reqVerified, reqConfirmed, reqThrown,
                  browserLaunches, stageLog >>
  /\ UNCHANGED notReqVars

NextRequest ==
  \/ ReqInvalid
  \/ ReqValid
  \/ ReqSearchMissingKey
  \/ ReqSearchFails
  \/ ReqSearchOk
  \/ ReqVerifyMissingKey
  \/ ReqVerifyFails
  \/ ReqVerifyOk
  \/ ReqParseOk
  \/ ReqParseFails
  \/ ReqProbeSkipped
  \/ ReqProbeLaunch
  \/ ReqProbeThrows
  \/ ReqProbeReturns
  \/ ReqCollectBadUrl
  \/ ReqCollectLaunch
  \/ ReqCollectNoText
  \/ ReqCollectOracleOk
  \/ ReqCollectOracleFails
  \/ ReqInsertOk
  \/ ReqInsertError
  \/ ReqCatch

SpecRequest == InitRequest /\ [][NextRequest]_vars

(***************************************************************************)
(* The batch driver: it posts every row of a CSV file to /api/collect,     *)
(* retries a failed request, and writes one CSV of results.                *)
(***************************************************************************)
\* the rows of the seed file: with or without brand and product name
BatchRow(brand, name) == [brand |-> brand, product_name |-> name]

BatchRows ==
  { BatchRow(<<"b">>, <<"p">>), BatchRow(<<>>, <<"p">>), BatchRow(<<"b">>, <<>>) }

RowLists == UNION { [1..n -> BatchRows] : n \in 1..MaxRows }

\* what one POST request can end in: a 2xx answer, a non-2xx answer, or a
\* throw of fetch or of res.json()
RequestOutcomes == { "ok", "http_error", "threw" }

\* search_form_product_list as the product lookup gives it; <<>> also when
\* the lookup fails or the answer carries no id
ProductLists == { <<>>, << [productName |-> <<"p">>] >> }

\* a loop that goes on until an attempt succeeds
RetryWhileFailing(n, done) == ~done

\* `while (attempt <= MAX_RETRY && !ok)`
RetryAllowed(n, done) == n <= MAX_RETRY /\ ~done

\* one line of the output CSV: seed_index, item_rank, status, attempts, error
OutputRow(index, rank, status, n, error) ==
  [seed_index |-> index, item_rank |-> rank, status |-> status,
   attempts |-> n, error |-> error]

\* the lines a finished row adds: one per item of the list, or one
RowsOf(index, succeeded, n, error, list) ==
  IF succeeded /\ Len(list) > 0
    THEN [r \in 1..Len(list) |-> OutputRow(index, r, "ok", n, <<>>)]
    ELSE << OutputRow(index, 0, IF succeeded THEN "ok" ELSE "failed", n,
                      IF succeeded THEN <<>> ELSE error) >>

InitBatch ==
  /\ CaptureIdle
  /\ ReqIdle
  /\ ScoreIdle
  /\ CrawlIdle
  /\ ProbeIdle
  /\ CollectIdle
  /\ PostIdle
  /\ FetchIdle
  /\ batchPc = "row"
  /\ rows \in RowLists
  /\ rowIndex = 1
  /\ attempt = 0
  /\ ok = FALSE
  /\ errorText = <<>>
  /\ productList = <<>>
  /\ requests = <<>>
  /\ outputRows = <<>>

\* a row without brand or product name: one "skipped" line, then `continue`
BatchSkipRow ==
  /\ batchPc = "row"
  /\ rowIndex <= Len(rows)
  /\ rows[rowIndex].brand = <<>> \/ rows[rowIndex].product_name = <<>>
  /\ outputRows' =
       Append(outputRows,
              OutputRow(rowIndex, 0, "skipped", 0,
                        <<"i", "n", "v", "a", "l", "i", "d">>))
  /\ rowIndex' = rowIndex + 1
  /\ attempt' = 0
  /\ ok' = FALSE
  /\ errorText' = <<>>
  /\ productList' = <<>>
  /\ UNCHANGED << batchPc, rows, requests >>
  /\ UNCHANGED notBatchVars

\* a valid row: `let attempt = 0; let ok = false;`
BatchBeginRow ==
  /\ batchPc = "row"
  /\ rowIndex <= Len(rows)
  /\ rows[rowIndex].brand /= <<>> /\ rows[rowIndex].product_name /= <<>>
  /\ attempt' = 0
  /\ ok' = FALSE
  /\ errorText' = <<>>
  /\ productList' = <<>>
  /\ batchPc' = "retry"
  /\ UNCHANGED << rows, rowIndex, requests, outputRows >>
  /\ UNCHANGED notBatchVars

\* one pass of the `while` body: the request is answered with 2xx, the
\* product lookup gives a list or nothing
BatchAttemptOk ==
  /\ batchPc = "retry"
  /\ RetryAllowed(attempt, ok)
  /\ attempt' = attempt + 1
  /\ requests' = Append(requests, [row |-> rowIndex, outcome |-> "ok"])
  /\ productList' \in ProductLists
  /\ ok' = TRUE
  /\ UNCHANGED << batchPc, rows, rowIndex, errorText, outputRows >>
  /\ UNCHANGED notBatchVars

\* one pass of the `while` body: the request fails and the catch block
\* keeps the message
BatchAttemptFails ==
  /\ batchPc = "retry"
  /\ RetryAllowed(attempt, ok)
  /\ attempt' = attempt + 1
  /\ \E outcome \in RequestOutcomes \ {"ok"} :
       /\ requests' = Append(requests, [row |-> rowIndex, outcome |-> outcome])
       /\ errorText' = <<outcome>>
  /\ UNCHANGED << batchPc, rows, rowIndex, ok, productList, outputRows >>
  /\ UNCHANGED notBatchVars

\* the `while` is over: the lines of the row are pushed, then the delay
BatchEndRow ==
  /\ batchPc = "retry"
  /\ ~RetryAllowed(attempt, ok)
  /\ outputRows' =
       outputRows \o RowsOf(rowIndex, ok, attempt, errorText, productList)
  /\ rowIndex' = rowIndex + 1
  /\ batchPc' = "row"
  /\ UNCHANGED << rows, attempt, ok, errorText, productList, requests >>
  /\ UNCHANGED notBatchVars

\* the `for` is over: the CSV is written
BatchWriteCsv ==
  /\ batchPc = "row"
  /\ rowIndex > Len(rows)
  /\ batchPc' = "done"
  /\ UNCHANGED << rows, rowIndex, attempt, ok, errorText, productList,
                  requests, outputRows >>
  /\ UNCHANGED notBatchVars

NextBatch ==
  \/ BatchSkipRow
  \/ BatchBeginRow
  \/ BatchAttemptOk
  \/ BatchAttemptFails
  \/ BatchEndRow
  \/ BatchWriteCsv

\* every awaited call of the script settles: the script goes on while it
\* has a step to take
SpecBatch == InitBatch /\ [][NextBatch]_vars /\ WF_vars(NextBatch)

(***************************************************************************)
(* The response listeners of collectSearchFormProducts: the loop over the  *)
(* URLs of one keyword, with the handlers of the "response" events running *)
(* between the awaits of the loop.                                         *)
(***************************************************************************)
\* the body of the n-th response the page emits
BodyOf(n) == <<"r1", "r2", "r3", "r4", "r5", "r6">>[n]

\* an array declared outside the loop: a handler pushes to the array of
\* the attempt that is running
ChunksTargetShared(own, running) == running

\* `const networkChunks: string[] = []` inside the loop body: the handler
\* of an attempt pushes to the array of its own attempt
ChunksTarget(own, running) == own

InitCapture ==
  /\ ReqIdle
  /\ ScoreIdle
  /\ CrawlIdle
  /\ ProbeIdle
  /\ CollectIdle
  /\ PostIdle
  /\ FetchIdle
  /\ BatchIdle
  /\ capPc = "start"
  /\ capIndex = 0
  /\ listeners = {}
  /\ networkChunks = <<>>
  /\ pending = {}
  /\ delivered = <<>>
  /\ capAttempts = <<>>

\* the first pass of the loop: a new array, and `page.on("response", ...)`
CapStart ==
  /\ capPc = "start"
  /\ capIndex' = 1
  /\ networkChunks' = << <<>> >>
  /\ listeners' = {1}
  /\ capPc' = "loading"
  /\ UNCHANGED << pending, delivered, capAttempts >>
  /\ UNCHANGED notCaptureVars

\* the page emits a response while the loop awaits: every registered
\* listener is called, and its handler starts to read the body
CapResponse ==
  /\ capPc = "loading"
  /\ Len(delivered) < MaxResponses
  /\ delivered' = Append(delivered, capIndex)
  /\ pending' = pending \cup { [own |-> a, body |-> BodyOf(Len(delivered) + 1)] :
                                a \in listeners }
  /\ UNCHANGED << capPc, capIndex, listeners, networkChunks, capAttempts >>
  /\ UNCHANGED notCaptureVars

\* `await response.text()` of a handler is over and the handler pushes its
\* chunk, while the loop or the caller awaits
CapHandlerPush ==
  /\ capPc \in {"loading", "closing", "done"}
  /\ \E h \in pending :
       /\ pending' = pending \ {h}
       /\ \E t \in { ChunksTarget(h.own, capIndex) } :
            networkChunks' =
              [networkChunks EXCEPT ![t] = Append(@, <<h.body>>)]
  /\ UNCHANGED << capPc, capIndex, listeners, delivered, capAttempts >>
  /\ UNCHANGED notCaptureVars

\* a handler returns without a chunk: the URL or the content type is not
\* of interest, the body is blank, or reading it throws
CapHandlerDrop ==
  /\ capPc \in {"loading", "closing", "done"}
  /\ \E h \in pending : pending' = pending \ {h}
  /\ UNCHANGED << capPc, capIndex, listeners, networkChunks, delivered,
                  capAttempts >>
  /\ UNCHANGED notCaptureVars

\* the pass after this one: a new array and a new listener, or the end of
\* the loop
CapNextPass(recorded) ==
  /\ capAttempts' = recorded
  /\ IF capIndex < MaxUrlsPerKeyword
       THEN /\ capIndex' = capIndex + 1
            /\ networkChunks' = Append(networkChunks, <<>>)
            /\ listeners' = (listeners \ {capIndex}) \cup {capIndex + 1}
            /\ capPc' = "loading"
       ELSE /\ listeners' = listeners \ {capIndex}
            /\ capPc' = "closing"
            /\ UNCHANGED << capIndex, networkChunks >>

\* the page was read: the chunks pushed so far are joined, the attempt is
\* recorded unless it has no text, and `finally` removes the listener
CapRecord ==
  /\ capPc = "loading"
  /\ \E main \in PageMains :
       LET pageText == PageTextOf(main)
           networkText == NetworkTextOf(networkChunks[capIndex])
       IN CapNextPass(IF RecordsAttempt(pageText, networkText)
                        THEN Append(capAttempts,
                                    [attempt |-> capIndex, pageText |-> pageText,
                                     networkText |-> networkText])
                        ELSE capAttempts)
  /\ UNCHANGED << pending, delivered >>
  /\ UNCHANGED notCaptureVars

\* page.goto or an evaluation throws: the catch ignores it and `finally`
\* removes the listener
CapThrows ==
  /\ capPc = "loading"
  /\ CapNextPass(capAttempts)
  /\ UNCHANGED << pending, delivered >>
  /\ UNCHANGED notCaptureVars

\* `await context.close(); await browser.close();`
CapClose ==
  /\ capPc = "closing"
  /\ capPc' = "done"
  /\ UNCHANGED << capIndex, listeners, networkChunks, pending, delivered,
                  capAttempts >>
  /\ UNCHANGED notCaptureVars

NextCapture ==
  \/ CapStart
  \/ CapResponse
  \/ CapHandlerPush
  \/ CapHandlerDrop
  \/ CapRecord
  \/ CapThrows
  \/ CapClose

SpecCapture == InitCapture /\ [][NextCapture]_vars


(***************************************************************************)
(* Properties of crawlProductUrls.                                         *)
(***************************************************************************)
\* the queue holds an entry whose page was not visited
QueueHoldsUnvisited ==
  \E i \in 1..Len(queue) :
    LET n == normalizeUrl(baseUrl, queue[i].url)
    IN n /= Null /\ n \notin visited

\* C1: in one invocation of crawlProductUrls the visited set never holds
\* more than MAX_CRAWL_PAGES (5) distinct normalized URLs, whatever links
\* the pages expose (cycles, more than 5 reachable pages).
C1_VisitedAtMostMaxPages ==
  /\ Cardinality(visited) <= MAX_CRAWL_PAGES
  /\ \A u \in visited : u.kind = "abs" /\ u.frag = <<>>

\* C1 witness: the crawl returned with the cap reached while a page that
\* was never visited is still queued, and a link back to the start page
\* was followed (the start page was queued again and skipped).
C1_Witness_CapBinds ==
  /\ crawlPc = "done"
  /\ Cardinality(visited) = MAX_CRAWL_PAGES
  /\ QueueHoldsUnvisited
  /\ linksLeft = 0

Trimmed == [i \in 1..Len(searchKeywords) |-> trim(searchKeywords[i])]

IsFirstOccurrence(i) ==
  /\ Trimmed[i] /= <<>>
  /\ \A j \in 1..(i - 1) : Trimmed[j] /= Trimmed[i]

ExpectedKeywords ==
  LET firsts == { i \in 1..Len(searchKeywords) : IsFirstOccurrence(i) }
  IN [n \in 1..Cardinality(firsts) |->
        Trimmed[CHOOSE i \in firsts :
                  Cardinality({ j \in firsts : j <= i }) = n]]

InfoFields == {"submittedText", "resultUrl", "nameHit", "priceHit"}

ProbeReturned == probePc = "done"

\* the homepage never shows a search input
HomepageHasNoInput == homeDom = DomNoInput /\ lateDom = DomNoInput

\* the initial load of the homepage threw
HomepageLoadFailed == probeThrew /\ pageUrl = Null

NoProbeNavigated == \A i \in 1..Len(probeLog) : ~probeLog[i].navigated

InputNotFoundResult ==
  /\ probeReturn.available = FALSE
  /\ probeReturn.info /= Null
  /\ probeReturn.info.reason = "input_not_found"
  /\ navigations = <<HomepageUrl>>
  /\ NoProbeNavigated

\* C3: on a homepage without an input element (which loads), a call with a
\* non-empty keyword list returns available=false with info.reason
\* input_not_found and navigates nowhere but to the homepage, in both rounds.
C3_NoInputReportsInputNotFound ==
  (/\ ProbeReturned /\ HomepageHasNoInput /\ ~HomepageLoadFailed
   /\ Len(searchKeywords) > 0)
    => InputNotFoundResult

\* the same statement for the calls that end with the final return of the
\* function: a keyword is left after trimming and no page operation throws
C3_NoInputWhenAllProbesRun ==
  (/\ ProbeReturned /\ HomepageHasNoInput
   /\ ExpectedKeywords /= <<>> /\ ~probeThrew)
    => /\ InputNotFoundResult
       /\ Len(probeLog) = 2 * Len(ExpectedKeywords)

\* the probes that navigated to a submission URL
SubmittedProbes == { i \in 1..Len(probeLog) : probeLog[i].navigated }

\* C4: for every probe that navigates to a submission URL the available
\* flag equals nameHit, and a result page that differs only in priceHit
\* gives the same available flag.
C4_AvailableIsNameHit ==
  \A i \in SubmittedProbes :
    LET e == probeLog[i]
    IN /\ e.result.available = e.result.info.nameHit
       /\ \A bodyText \in BodyTexts :
            LET other == SubmitResult(e.result.info.source, e.kw,
                                      e.result.info.resultUrl, ProductName,
                                      e.searchInfo, bodyText)
            IN other.info.nameHit = e.result.info.nameHit
                 => other.available = e.result.available

\* one probe read a page that shows a price and no name, another a page
\* that shows neither, and the call ended without an available form
C4_Witness_PriceWithoutName ==
  /\ ProbeReturned
  /\ probeReturn.available = FALSE
  /\ \E i \in SubmittedProbes :
       /\ probeLog[i].result.info.priceHit
       /\ ~probeLog[i].result.info.nameHit
  /\ \E i \in SubmittedProbes :
       /\ ~probeLog[i].result.info.priceHit
       /\ ~probeLog[i].result.info.nameHit

\* C5: the keywords are probed in the order of the trimmed, de-duplicated
\* input list; the result of the first available probe is returned and no
\* probe runs after it.
C5_ProbesInOrderFirstAvailableWins ==
  /\ \A i \in 1..Len(probeLog) :
       /\ Len(ExpectedKeywords) > 0
       /\ probeLog[i].kw =
            ExpectedKeywords[((i - 1) % Len(ExpectedKeywords)) + 1]
  /\ \A i \in 1..(Len(probeLog) - 1) : ~probeLog[i].result.available
  /\ (Len(probeLog) > 0 /\ probeLog[Len(probeLog)].result.available)
       => /\ ProbeReturned
          /\ probeReturn = probeLog[Len(probeLog)].result

\* two keywords are left of a list with a padded entry, the first fails
\* and the second is available
C5_Witness_SecondKeywordWins ==
  /\ ProbeReturned
  /\ probeReturn.available
  /\ Len(ExpectedKeywords) = 2
  /\ ExpectedKeywords /= searchKeywords
  /\ Len(probeLog) = 2
  /\ probeReturn.info.submittedText = ExpectedKeywords[2]

ProbesOf(k, round) ==
  { i \in 1..Len(probeLog) : probeLog[i].kw = k /\ probeLog[i].round = round }

\* C6: every keyword is probed at most once in round 1 and at most once in
\* round 2, round 2 starts only after every round-1 probe returned
\* available=false, and there is no third round.
C6_RetryIsBounded ==
  /\ \A i \in 1..Len(probeLog) : probeLog[i].round \in {1, 2}
  /\ \A i \in 1..Len(ExpectedKeywords), round \in {1, 2} :
       Cardinality(ProbesOf(ExpectedKeywords[i], round)) <= 1
  /\ Len(probeLog) <= 2 * Len(ExpectedKeywords)
  /\ \A i \in 1..Len(probeLog) :
       probeLog[i].round = 2 =>
         /\ i > Len(ExpectedKeywords)
         /\ \A j \in 1..Len(ExpectedKeywords) :
              /\ probeLog[j].round = 1
              /\ ~probeLog[j].result.available

\* both rounds ran over two keywords and the last probe was available
C6_Witness_LastRetryWins ==
  /\ ProbeReturned
  /\ Len(ExpectedKeywords) = 2
  /\ Len(probeLog) = 4
  /\ probeLog[4].round = 2
  /\ probeReturn.available

\* both rounds ran to their end and no probe was available
AllProbesFailed ==
  /\ ProbeReturned
  /\ ExpectedKeywords /= <<>>
  /\ Len(probeLog) = 2 * Len(ExpectedKeywords)
  /\ \A i \in 1..Len(probeLog) : ~probeLog[i].result.available

\* info holds every field of the info of a probe, with its value
CarriesFieldsOf(info, probeInfo) ==
  \A f \in DOMAIN probeInfo : f \in DOMAIN info /\ info[f] = probeInfo[f]

\* C7: when every probe of both rounds returned available=false, the call
\* returns available=false with an info that holds the fields of the last
\* probe's info and an attempts list with one entry per executed probe, in
\* execution order, each tagged with its round.
C7_AllFailedCarriesLastInfoAndHistory ==
  AllProbesFailed =>
    /\ probeReturn.available = FALSE
    /\ probeReturn.info /= Null
    /\ CarriesFieldsOf(probeReturn.info, probeLog[Len(probeLog)].result.info)
    /\ "attempts" \in DOMAIN probeReturn.info
    /\ Len(probeReturn.info.attempts) = Len(probeLog)
    /\ \A i \in 1..Len(probeLog) :
         LET entry == probeReturn.info.attempts[i]
         IN /\ "round" \in DOMAIN entry
            /\ entry.round = probeLog[i].round
            /\ CarriesFieldsOf(entry, probeLog[i].result.info)

\* two keywords failed in both rounds; the first probe submitted the form
\* and the last one found no input on the result page, whose reason the
\* returned info shows
C7_Witness_FourFailedProbes ==
  /\ AllProbesFailed
  /\ Len(probeLog) = 4
  /\ probeLog[1].navigated
  /\ ~probeLog[4].navigated
  /\ probeReturn.info.reason = "input_not_found"
  /\ probeReturn.info.source = "homepage_retry"

\* C8: every result the function returns, on every exit path, has an info
\* that carries the submitted keyword, the resulting URL and the flags
\* nameHit and priceHit.
C8_InfoAlwaysCarriesContext ==
  ProbeReturned =>
    /\ probeReturn.info /= Null
    /\ InfoFields \subseteq DOMAIN probeReturn.info

\* the results whose info is an object do carry these fields, with the
\* values of the last probe that ran
C8_InfoObjectCarriesContext ==
  (ProbeReturned /\ probeReturn.info /= Null) =>
    /\ InfoFields \subseteq DOMAIN probeReturn.info
    /\ Len(probeLog) > 0
    /\ LET last == probeLog[Len(probeLog)]
       IN /\ probeReturn.info.submittedText = last.kw
          /\ probeReturn.info.resultUrl = last.result.info.resultUrl
          /\ probeReturn.info.nameHit = last.result.info.nameHit
          /\ probeReturn.info.priceHit = last.result.info.priceHit

(***************************************************************************)
(* Properties of collectSearchFormProducts.                                *)
(***************************************************************************)
CollectReturned == collectPc = "done"

ReturnedItems == IF collectReturn = Null THEN <<>> ELSE collectReturn.items

\* C9: every returned item has a productName that is non-empty after
\* trimming and a listPrice or a salePrice that is non-empty.
C9_ItemsHaveNameAndPrice ==
  \A i \in 1..Len(ReturnedItems) :
    /\ trim(ReturnedItems[i].productName) /= <<>>
    /\ \/ trim(ReturnedItems[i].listPrice) /= <<>>
       \/ trim(ReturnedItems[i].salePrice) /= <<>>

\* the oracle gave an item with a blank name or with blank prices, which
\* was dropped, and an item with a sale price only, which was kept
C9_Witness_ItemDropped ==
  /\ CollectReturned
  /\ Len(parsedProducts) = 2
  /\ Len(ReturnedItems) = 1
  /\ ReturnedItems[1].listPrice = <<>>
  /\ \E i \in 1..2 :
       \/ trim(parsedProducts[i].productName) = <<>>
       \/ /\ trim(parsedProducts[i].listPrice) = <<>>
          /\ trim(parsedProducts[i].salePrice) = <<>>

\* text contains the keyword, case-insensitive and whitespace removed
ContainsKeyword(text, kw) ==
  /\ StripWs(toLowerCase(kw)) /= <<>>
  /\ includes(StripWs(toLowerCase(text)), StripWs(toLowerCase(kw)))

\* the productName, the url or the reason of the item contains a keyword
FieldContainsKeyword(item) ==
  \E i \in 1..Len(collectKeywords) :
    \/ ContainsKeyword(item.productName, collectKeywords[i])
    \/ ContainsKeyword(item.url, collectKeywords[i])
    \/ ContainsKeyword(item.reason, collectKeywords[i])

ItemsWithScore(list, n) == SelectSeq(list, LAMBDA item : item.score = n)

IsPrefix(a, b) == Len(a) <= Len(b) /\ SubSeq(b, 1, Len(a)) = a

AtMostMaxItems == Len(ReturnedItems) <= MaxItems

ScoresNonIncreasing ==
  \A i \in 1..(Len(ReturnedItems) - 1) :
    ReturnedItems[i].score >= ReturnedItems[i + 1].score

\* the items of one score stand in the order the oracle gave them
EqualScoresKeepOrder ==
  \A n \in {0, 10} :
    IsPrefix(ItemsWithScore(ReturnedItems, n), ItemsWithScore(scored, n))

\* C10: at most 10 items are returned; the score of an item is 10 when its
\* productName, url or reason contains one of the keywords (case-insensitive,
\* whitespace removed) and 0 otherwise; the list is ordered by
\* non-increasing score and items of equal score keep the oracle's order.
C10_ScoredSortedAndCut ==
  /\ AtMostMaxItems
  /\ \A i \in 1..Len(ReturnedItems) :
       ReturnedItems[i].score =
         IF FieldContainsKeyword(ReturnedItems[i]) THEN 10 ELSE 0
  /\ ScoresNonIncreasing
  /\ EqualScoresKeepOrder

\* what does hold of the returned list: the size, the order, and a score
\* of 10 for every item of which a field contains a keyword
C10_SizeOrderAndFieldMatches ==
  /\ AtMostMaxItems
  /\ \A i \in 1..Len(ReturnedItems) :
       /\ ReturnedItems[i].score \in {0, 10}
       /\ FieldContainsKeyword(ReturnedItems[i]) => ReturnedItems[i].score = 10
  /\ ScoresNonIncreasing
  /\ EqualScoresKeepOrder

\* C11: no returned item has a denylisted navigation label (SHOP, Home) as
\* its productName, whatever the oracle answers.
C11_NoDeniedLabelReturned ==
  \A i \in 1..Len(ReturnedItems) :
    ReturnedItems[i].productName \notin DeniedLabels

(***************************************************************************)
(* Properties of POST.                                                     *)
(***************************************************************************)
UrlConfirmed == postPc = "confirm"

\* the returned items that have a url
ItemsWithUrl == SelectSeq(ReturnedItems, LAMBDA item : item.url /= <<>>)

\* the attempts whose keyword is the keywordUsed of the first item with a
\* url, compared trimmed and without case
MatchingAttempts ==
  { j \in 1..Len(attempts) :
      toLowerCase(trim(attempts[j].keyword))
        = toLowerCase(trim(ItemsWithUrl[1].keywordUsed)) }

FirstMatchingAttempt ==
  attempts[CHOOSE j \in MatchingAttempts : \A k \in MatchingAttempts : j <= k]

\* the URL is the attempt URL when an attempt matches, the URL the
\* collector was called with otherwise
ConfirmedUrlIsFirstMatch ==
  IF MatchingAttempts = {}
    THEN searchFormConfirmedUrl = confirmedUrl
    ELSE searchFormConfirmedUrl = FirstMatchingAttempt.url

\* new adds search parameters to old and is not old
MoreSpecificThan(new, old) ==
  /\ new /= old
  /\ new.host = old.host
  /\ PathOnly(new.path) = PathOnly(old.path)
  /\ \A i \in 1..Len(SearchParams(old.path)) :
       \E j \in 1..Len(SearchParams(new.path)) :
         SearchParams(new.path)[j] = SearchParams(old.path)[i]

FetchReturned == fetchPc = "done"
FetchThrew == fetchPc = "threw"

\* the string fields of a ProductSignals record other than url
SignalStringFields ==
  { "text", "priceBlockText", "titleBlockText", "priceLines", "imageSrc",
    "productName", "listPrice", "salePrice" }

IsEmptyRecordOf(record, url) ==
  /\ record /= Null
  /\ record.url = url
  /\ record.currencyHint = ""
  /\ \A f \in SignalStringFields : record[f] = <<>>

\* C13: fetchProductSignals never throws; when a step of it failed (the
\* launch of the browser, the creation of the context, the navigation, the
\* evaluation in the page, the closing of the context) it returns a record
\* with the input URL and every other string field empty.
C13_FetchNeverThrows ==
  /\ ~FetchThrew
  /\ (FetchReturned /\ fetchFailed) => IsEmptyRecordOf(fetchReturn, fetchUrl)

\* the failures inside the `try` block do give the empty record
C13_CaughtFailureGivesEmptyRecord ==
  (FetchReturned /\ fetchFailed) => IsEmptyRecordOf(fetchReturn, fetchUrl)

\* a name the claim calls rejected: short, numeric or with a denied phrase
RejectedName(name) ==
  /\ name /= <<>>
  /\ \/ Len(name) <= 3
     \/ \A i \in 1..Len(name) : IsDigit(name[i])
     \/ \E phrase \in DeniedPhrases : includes(toLowerCase(name), phrase)

\* the records the program has built
BuiltSignals ==
  (IF fetchReturn = Null THEN {} ELSE {fetchReturn})
    \cup { candidateSignals[i] : i \in 1..Len(candidateSignals) }

\* the first title of the page, in the order of the selectors, that is not
\* rejected and not blank
FirstAcceptedTitle(page) ==
  LET accepted == SelectSeq(titleCandidates(page),
                            LAMBDA t : t /= <<>> /\ ~RejectedName(t))
  IN IF accepted = <<>> THEN <<>> ELSE Head(accepted)

\* C14: no ProductSignals record the program builds has a rejected
\* productName (3 characters or fewer, purely numeric, or with a denylisted
\* phrase); the record of fetchProductSignals has the first title candidate
\* that is not rejected, or "", and the same holds for the record POST
\* builds from the title of a search hit.
C14_NoRejectedProductName ==
  /\ \A record \in BuiltSignals : ~RejectedName(record.productName)
  /\ (FetchReturned /\ ~fetchFailed) =>
       fetchReturn.productName = FirstAcceptedTitle(fetchPage)

\* the records of fetchProductSignals alone do keep to it
C14_FetchedNameNotRejected ==
  fetchReturn /= Null =>
    /\ ~RejectedName(fetchReturn.productName)
    /\ ~fetchFailed => fetchReturn.productName = FirstAcceptedTitle(fetchPage)

(***************************************************************************)
(* Properties of the browser contexts and of the failures of the crawl.    *)
(***************************************************************************)
CrawlExited == crawlPc \in {"done", "threw"}
ProbeExited == probePc = "done"
CollectExited == collectPc \in {"done", "threw"}
FetchExited == fetchPc \in {"done", "threw"}

\* C15: each component that launches a browser has closed the context it
\* opened when it has exited, by a return or by a throw.
C15_ContextClosedOnEveryExit ==
  /\ CrawlExited => ~crawlContextOpen
  /\ ProbeExited => ~probeContextOpen
  /\ CollectExited => ~collectContextOpen
  /\ FetchExited => ~fetchContextOpen

\* the crawl closes its context on every exit that comes after the `try`
C15_CrawlReturnClosesContext ==
  crawlPc = "done" => ~crawlContextOpen

\* no page of the crawl has exposed a link
NoPageGaveLinks == linksLeft = MaxSiteLinks

EmptyCandidateLists(result) ==
  /\ result /= Null
  /\ result.productCandidates = <<>>
  /\ result.searchCandidates = <<>>

\* C17: a page that fails to load or to evaluate does not stop the crawl
\* and counts as visited; a crawl of which every page failed, the start
\* URL being unreachable or unparseable, returns empty candidate lists and
\* raises no error.
C17_FailuresGiveEmptyLists ==
  /\ crawlPc /= "threw"
  /\ (crawlPc \in {"loop", "goto", "links"} /\ normalized /= Null)
       => normalized \in visited
  /\ (crawlPc = "done" /\ NoPageGaveLinks) => EmptyCandidateLists(crawlResult)

\* what holds with a start URL that parses: the failed page is visited,
\* the loop goes on, and the crawl returns
C17_ParsedStartNeverThrows ==
  startUrl.kind = "abs" =>
    /\ crawlPc /= "threw"
    /\ (crawlPc \in {"loop", "goto", "links"} /\ normalized /= Null)
         => normalized \in visited
    /\ (crawlPc = "done" /\ NoPageGaveLinks) => EmptyCandidateLists(crawlResult)

\* the point of the collector at which the oracle is called
OracleCallDue == collectPc = "closed" /\ attempts /= <<>>

\* C16: within one POST at most one browser context is open at any time:
\* the context of the probe is closed before the collector opens its own,
\* and no oracle call is made while a context is open.
C16_OneContextAtATime ==
  /\ ~(probeContextOpen /\ collectContextOpen)
  /\ collectContextOpen => (probePc = "done" /\ ~probeContextOpen)
  /\ OracleCallDue => (~probeContextOpen /\ ~collectContextOpen)
  /\ parsedProducts /= <<>> => (~probeContextOpen /\ ~collectContextOpen)

\* the probe opened and closed its context, the collector opened its own,
\* closed it, and the oracle is about to be called
C16_Witness_OracleAfterBothClosed ==
  /\ postPc = "collect"
  /\ navigations /= <<>>
  /\ probeReturn /= Null
  /\ probeReturn.info /= Null
  /\ OracleCallDue
  /\ Len(attempts) >= 2

(***************************************************************************)
(* Properties of the candidate map of the crawl.                           *)
(***************************************************************************)
\* the largest combined score computed so far for a URL, 0 without one
MaxSeen(url) ==
  LET scores == { e.score : e \in { x \in scoresSeen : x.url = url } } \cup {0}
  IN CHOOSE m \in scores : \A n \in scores : n <= m

CandidateUrls(cands) == { cands[i].url : i \in 1..Len(cands) }

\* C18: during one crawl the score stored for a candidate URL never
\* decreases, and at every point it is the largest combined score computed
\* so far for that normalized URL, over all pages and anchors.
C18_ScoreIsMaximumSeen ==
  /\ [](\A e \in scoresSeen :
          CandidateScore(productCandidates, e.url) = MaxSeen(e.url))
  /\ [](\A url \in CandidateUrls(productCandidates) :
          CandidateScore(productCandidates, url) = MaxSeen(url))
  /\ [][\A url \in CandidateUrls(productCandidates) :
          CandidateScore(productCandidates', url)
            >= CandidateScore(productCandidates, url)]_vars

\* a URL was seen with two positive scores and holds the larger one
C18_Witness_TwoScoresOneUrl ==
  \E e1 \in scoresSeen : \E e2 \in scoresSeen :
    /\ e1.url = e2.url
    /\ 0 < e1.score /\ e1.score < e2.score
    /\ CandidateScore(productCandidates, e1.url) = e2.score

\* C19: every entry of the candidate map and every entry of the returned
\* productCandidates has a score greater than 0; a link whose combined
\* score is 0 is never added.
C19_CandidateScoresPositive ==
  /\ \A i \in 1..Len(productCandidates) : productCandidates[i].score > 0
  /\ crawlResult /= Null =>
       \A i \in 1..Len(crawlResult.productCandidates) :
         crawlResult.productCandidates[i].score > 0
  /\ \A e \in scoresSeen :
       MaxSeen(e.url) = 0 => e.url \notin CandidateUrls(productCandidates)

\* the crawl returned candidates, and a link of combined score 0 was seen
\* and is not among them
C19_Witness_ZeroScoreLeftOut ==
  /\ crawlPc = "done"
  /\ crawlResult.productCandidates /= <<>>
  /\ \E e \in scoresSeen :
       /\ e.score = 0
       /\ MaxSeen(e.url) = 0
       /\ e.url \notin CandidateUrls(productCandidates)

(***************************************************************************)
(* Properties of the prices of fetchProductSignals.                        *)
(***************************************************************************)
\* the call returned the record of the `try` block, with won prices
ReturnedWonPrices ==
  /\ FetchReturned
  /\ ~fetchFailed
  /\ fetchReturn.currencyHint \in {"", "KRW"}

TwelveThousandWon == <<"1", "2", ",", "0", "0", "0", WonChar>>

\* C20: normalizePrice followed by formatPrice returns a canonical won
\* string as it is, and the inputs 12,000 with the won suffix and 12,000
\* with the won sign as prefix give the same canonical amount.
C20_NormalizeThenFormatIdempotent ==
  ReturnedWonPrices =>
    /\ formatPrice(normalizePrice(fetchReturn.listPrice)) = fetchReturn.listPrice
    /\ formatPrice(normalizePrice(fetchReturn.salePrice)) = fetchReturn.salePrice
    /\ fetchPage.rawListPrice
           \in { TwelveThousandWon, <<WonSign, "1", "2", ",", "0", "0", "0">> }
         => fetchReturn.listPrice = TwelveThousandWon

\* the page gave the price with the won sign in front, and the record
\* holds the canonical string with the won suffix
C20_Witness_WonSignPrefix ==
  /\ ReturnedWonPrices
  /\ fetchPage.rawListPrice = <<WonSign, "1", "2", ",", "0", "0", "0">>
  /\ fetchReturn.listPrice = TwelveThousandWon
  /\ fetchReturn.salePrice /= <<>>

\* a string of digits, grouped by commas or not, that is not all zeros
IsPositiveAmount(s) ==
  /\ s /= <<>>
  /\ \A i \in 1..Len(s) : IsDigit(s[i]) \/ s[i] = ","
  /\ IsDigit(s[1]) /\ IsDigit(s[Len(s)])
  /\ \E i \in 1..Len(s) : IsDigit(s[i]) /\ s[i] /= "0"

\* an amount with digits after a decimal point
IsDecimalAmount(s) ==
  \E i \in 2..(Len(s) - 1) :
    /\ s[i] = "."
    /\ IsPositiveAmount(SubSeq(s, 1, i - 1)) \/ SubSeq(s, 1, i - 1) = <<"0">>
    /\ \A k \in (i + 1)..Len(s) : IsDigit(s[k])

\* empty, or a positive amount, alone or with the won suffix or with a
\* currency sign in front
IsEmptyOrAmount(price) ==
  \/ price = <<>>
  \/ IsPositiveAmount(price)
  \/ Len(price) > 1 /\ price[Len(price)] = WonChar
       /\ IsPositiveAmount(SubSeq(price, 1, Len(price) - 1))
  \/ Len(price) > 1 /\ price[1] = "$"
       /\ LET amount == TrimLeft(Tail(price))
          IN IsPositiveAmount(amount) \/ IsDecimalAmount(amount)

\* a text without any digit
HasNoAmount(text) == \A i \in 1..Len(text) : ~IsDigit(text[i])

\* C24: in every record returned by fetchProductSignals, listPrice and
\* salePrice are each empty or a normalized positive amount, with or
\* without its currency; free text without an amount is never a price,
\* on the path of the other currencies too.
C24_PricesEmptyOrAmount ==
  FetchReturned =>
    /\ IsEmptyOrAmount(fetchReturn.listPrice)
    /\ IsEmptyOrAmount(fetchReturn.salePrice)

\* C24, on the won path: empty or the grouped amount with the won suffix
C24_WonPricesEmptyOrAmount ==
  ReturnedWonPrices =>
    /\ IsEmptyOrAmount(fetchReturn.listPrice)
    /\ IsEmptyOrAmount(fetchReturn.salePrice)

\* the page names a dollar price nowhere, its list price element holds a
\* text without a digit, and the record carries that text as listPrice
C24_Witness_FreeTextAsPrice ==
  /\ FetchReturned
  /\ fetchReturn.currencyHint = "USD"
  /\ fetchReturn.listPrice /= <<>>
  /\ HasNoAmount(fetchReturn.listPrice)

(***************************************************************************)
(* Properties of one probe of checkSearchFormAvailability.                 *)
(***************************************************************************)
TypedFailureReasons ==
  { "input_not_found", "form_not_found", "method_not_get",
    "invalid_action_url" }

\* the reason that names what the page lacks
ReasonOfKind(kind) ==
  CASE kind = "no_input" -> "input_not_found"
    [] kind = "no_form" -> "form_not_found"
    [] kind = "not_get" -> "method_not_get"
    [] kind = "bad_action" -> "invalid_action_url"
    [] OTHER -> "none"

\* this step is one probe, and NewProbe is what it logged
ProbeStep == Len(probeLog') = Len(probeLog) + 1
NewProbe == probeLog'[Len(probeLog')]

\* C25: a probe that finds no input, no enclosing form, a form whose method
\* is not GET or an action that does not parse returns available = false
\* with the one reason of the four that names what it found, and it does
\* not navigate.
C25_FailedLookupTypedNoNavigation ==
  [][ (ProbeStep /\ ~HasAction(NewProbe.searchInfo)) =>
        /\ NewProbe.result.available = FALSE
        /\ NewProbe.result.info.reason \in TypedFailureReasons
        /\ NewProbe.result.info.reason = ReasonOfKind(dom'.kind)
        /\ navigations' = navigations
        /\ pageUrl' = pageUrl ]_vars

\* a probe found a form whose action does not parse; the only navigation so
\* far is the one to the homepage
C25_Witness_InvalidActionNoNavigation ==
  /\ Len(probeLog) > 0
  /\ ~HasAction(probeLog[Len(probeLog)].searchInfo)
  /\ probeLog[Len(probeLog)].result.info.reason = "invalid_action_url"
  /\ ~probeLog[Len(probeLog)].result.available
  /\ navigations = << HomepageUrl >>

\* C26: within one probe the trigger fallback runs at most once, and only
\* when the first lookup reported form_not_found and the matched input has
\* a non-empty id; the lookup is then repeated exactly once; after any other
\* failure reason nothing is clicked.
C26_TriggerOnceOnFormNotFound ==
  \A i \in 1..Len(probeLog) :
    LET e == probeLog[i]
    IN /\ e.clicks <= 1
       /\ e.lookups = 1 + e.clicks
       /\ e.clicks = 1 =>
            /\ ~HasAction(e.firstInfo)
            /\ e.firstInfo.errorReason = "form_not_found"
            /\ e.firstInfo.inputDebug.id /= <<>>
       /\ (~HasAction(e.firstInfo) /\ e.firstInfo.errorReason /= "form_not_found")
            => e.clicks = 0

\* a probe whose first lookup found no form clicked once, and its second
\* lookup found the form
C26_Witness_TriggerRecoversForm ==
  \E i \in 1..Len(probeLog) :
    /\ probeLog[i].clicks = 1
    /\ probeLog[i].lookups = 2
    /\ ~HasAction(probeLog[i].firstInfo)
    /\ HasAction(probeLog[i].searchInfo)

\* C27: every probe of round 1 looks up the search form on the homepage,
\* also after an earlier keyword's probe navigated to a result page and
\* returned available = false.
C27_Round1ProbesOnHomepage ==
  \A i \in 1..Len(probeLog) :
    probeLog[i].round = 1 => probeLog[i].fromUrl = HomepageUrl

\* C27, what the code keeps to: the first probe runs on the homepage, and
\* every later probe runs on the page the probe before it left
C27_ProbeRunsWhereLastOneEnded ==
  \A i \in 1..Len(probeLog) :
    probeLog[i].fromUrl =
      IF i = 1 THEN HomepageUrl
      ELSE IF probeLog[i - 1].navigated
        THEN probeLog[i - 1].searchInfo.action
        ELSE probeLog[i - 1].fromUrl

\* the first keyword's probe navigated and was not available; the second
\* keyword's probe of round 1 looked for the input on the result page
C27_Witness_SecondProbeOnResultPage ==
  /\ Len(probeLog) >= 2
  /\ probeLog[1].navigated /\ ~probeLog[1].result.available
  /\ probeLog[2].round = 1
  /\ probeLog[2].fromUrl = probeLog[1].searchInfo.action
  /\ probeLog[2].fromUrl /= HomepageUrl

(***************************************************************************)
(* Properties of the keyword scorers.                                      *)
(***************************************************************************)
\* scoreKeywordMatch has returned
MatchReturned == scorePc = "match"

\* the lowercased, whitespace-stripped keyword is non-empty and a substring
\* of the lowercased URL
ExactKeywordMatch ==
  /\ StripWs(toLowerCase(scoreKeyword)) /= <<>>
  /\ includes(toLowerCase(scoreInput), StripWs(toLowerCase(scoreKeyword)))

\* the whitespace-separated tokens of the keyword, of length at least 2,
\* that occur in the lowercased URL
TokensInUrl ==
  { i \in 1..Len(Tokens(toLowerCase(scoreKeyword))) :
      /\ Len(Tokens(toLowerCase(scoreKeyword))[i]) >= 2
      /\ includes(toLowerCase(scoreInput), Tokens(toLowerCase(scoreKeyword))[i]) }

\* C21: scoreKeywordMatch returns 3 when the lowercased, whitespace-stripped
\* keyword is a substring of the lowercased URL; otherwise it returns the
\* number of keyword tokens of length at least 2 that occur in the URL, and
\* in that case the result is never 3.
C21_ThreeOnlyOnExactMatch ==
  MatchReturned /\ StripWs(toLowerCase(scoreKeyword)) /= <<>> =>
    IF ExactKeywordMatch
      THEN scoreResult = 3
      ELSE scoreResult = Cardinality(TokensInUrl) /\ scoreResult /= 3

\* C21, what the function does keep to: 3 on an exact match, the token count
\* otherwise, whatever that count is
C21_ExactOrTokenCount ==
  MatchReturned /\ StripWs(toLowerCase(scoreKeyword)) /= <<>> =>
    IF ExactKeywordMatch
      THEN scoreResult = 3
      ELSE scoreResult = Cardinality(TokensInUrl)

\* three tokens of the keyword occur in the URL, the whole keyword does not,
\* and the call returned 3
C21_Witness_ThreeTokensScoreThree ==
  /\ MatchReturned
  /\ ~ExactKeywordMatch
  /\ Cardinality(TokensInUrl) = 3
  /\ scoreResult = 3

(***************************************************************************)
(* Properties of POST as a whole.                                          *)
(***************************************************************************)
\* a call of POST threw because a credential is missing or because the
\* search API or the oracle answered with a status outside 2xx
UpstreamFailure ==
  /\ reqThrown /= Null
  /\ reqThrown.cause \in { "missing_credential", "non_2xx" }

Responded == reqPc = "responded"

\* the failure is answered once, with its message and status 500, the call
\* that failed is the last one started, and the store has no row
FailsOnceAndStops ==
  /\ Len(stageLog) > 0
  /\ stageLog[Len(stageLog)] = reqThrown.stage
  /\ storeRows = 0
  /\ reqResponses = IF Responded THEN << Response(500, reqThrown.message) >>
                                 ELSE <<>>

\* C22: when a credential is missing or an upstream call answers with a
\* status outside 2xx, POST fails once with one message and status 500, no
\* later stage runs, no browser is launched and no row is written.
C22_UpstreamFailureLaunchesNoBrowser ==
  UpstreamFailure => FailsOnceAndStops /\ browserLaunches = 0

\* C22, amended: as above, but the browsers of the probe and of the
\* collector have been launched when the call that fails is the oracle call
\* of the collector; no browser has been launched for any earlier failure.
C22_UpstreamFailureStopsRequest ==
  UpstreamFailure =>
    /\ FailsOnceAndStops
    /\ browserLaunches = IF reqThrown.stage = "oracle" THEN 2 ELSE 0

\* the verification found no GOOGLE_API_KEY and POST has answered
C22_Witness_MissingOracleKey ==
  /\ Responded
  /\ UpstreamFailure
  /\ reqThrown.cause = "missing_credential"
  /\ stageLog = << "search", "verify" >>

\* C23: every request that passes the validation of its body ends with
\* exactly one row inserted, whether the pipeline completes or fails.
C23_OneInsertPerValidatedRequest ==
  Responded /\ reqBody.brand /\ reqBody.product_name => storeRows = 1

\* C23, what the code keeps to: a row is inserted exactly when the request
\* is answered with status 200, and never more than one
C23_OneInsertPerCompletedRequest ==
  /\ storeRows <= 1
  /\ Responded =>
       (storeRows = 1 <=> reqResponses = << Response(200, "ok") >>)

\* a validated request that failed and was answered, with no row inserted
C23_Witness_FailedRequestNotStored ==
  /\ Responded
  /\ reqBody.brand /\ reqBody.product_name
  /\ reqThrown /= Null
  /\ storeRows = 0

(***************************************************************************)
(* Properties of the crawl queue.                                          *)
(***************************************************************************)
\* every entry of the queue after the step was in the queue before it
NothingEnqueued ==
  /\ Len(queue') <= Len(queue)
  /\ \A i \in 1..Len(queue') : \E j \in 1..Len(queue) : queue'[i] = queue[j]

\* this step is the search-form short-circuit
ShortCircuitFires == fallbackSearchUrl' /= fallbackSearchUrl

\* C28: the search-form short-circuit fires at most once and only on a
\* page of depth 0; right after it the queue holds one entry, the search
\* URL at depth 1, and search-only mode is on; the mode stays on, no link
\* is enqueued from then on, and at most two pages are visited.
C28_ShortCircuitOnceThenSearchOnly ==
  /\ [][ ShortCircuitFires =>
           /\ fallbackSearchUrl = Null /\ ~searchOnlyMode
           /\ current.depth = 0
           /\ searchOnlyMode'
           /\ queue' = << [url |-> fallbackSearchUrl', depth |-> 1] >> ]_vars
  /\ [][ searchOnlyMode =>
           /\ searchOnlyMode'
           /\ ~ShortCircuitFires
           /\ NothingEnqueued ]_vars
  /\ [](searchOnlyMode => Cardinality(visited) <= 2)

\* the crawl is over after a short-circuit: the start page and the search
\* page were visited and the queue is empty
C28_Witness_TwoPagesAfterShortCircuit ==
  /\ crawlPc = "done"
  /\ searchOnlyMode
  /\ fallbackSearchUrl \in visited
  /\ Cardinality(visited) = 2

\* the links of the page being read that pass the origin filter
SiteLinksOfPage ==
  { i \in 1..Len(hrefs) :
      /\ normalizeUrl(baseUrl, hrefs[i].href) /= Null
      /\ isSameOriginOrSubdomain(baseUrl, normalizeUrl(baseUrl, hrefs[i].href)) }

\* C29: every entry of the crawl queue has depth at most MAX_CRAWL_DEPTH;
\* the links found on a page of that depth are scored and not enqueued.
C29_QueueDepthBounded ==
  /\ [](\A i \in 1..Len(queue) : queue[i].depth <= MAX_CRAWL_DEPTH)
  /\ [][ (crawlPc = "links" /\ crawlPc' = "loop" /\ scoresSeen' /= scoresSeen
            /\ current.depth = MAX_CRAWL_DEPTH) =>
           /\ queue' = queue
           /\ \A i \in SiteLinksOfPage :
                \E s \in scoresSeen' :
                  s.url = normalizeUrl(baseUrl, hrefs[i].href) ]_vars

\* a page of depth 2 was read outside search-only mode, and a link that was
\* scored is neither visited nor waiting in the queue
C29_Witness_DepthTwoLinkNotQueued ==
  /\ crawlPc = "loop"
  /\ current /= Null /\ current.depth = MAX_CRAWL_DEPTH
  /\ ~searchOnlyMode
  /\ queue = <<>>
  /\ Cardinality(visited) < MAX_CRAWL_PAGES
  /\ \E s \in scoresSeen : s.url \notin visited

\* C30: every URL of the candidate map and every URL the crawler visits is
\* same-origin with the start URL or on a subdomain of it, the search URL
\* built from a form's action included.
C30_VisitedAndCandidatesOnSite ==
  crawlPc \notin {"idle", "start", "threw"} =>
    /\ \A v \in visited : isSameOriginOrSubdomain(baseUrl, v)
    /\ \A i \in 1..Len(productCandidates) :
         isSameOriginOrSubdomain(baseUrl, productCandidates[i].url)

\* C30, what the code keeps to: the candidates, and the visited pages other
\* than the search URL of the short-circuit
C30_CandidatesAndFollowedLinksOnSite ==
  crawlPc \notin {"idle", "start", "threw"} =>
    /\ \A v \in visited :
         v = fallbackSearchUrl \/ isSameOriginOrSubdomain(baseUrl, v)
    /\ \A i \in 1..Len(productCandidates) :
         isSameOriginOrSubdomain(baseUrl, productCandidates[i].url)

\* the crawler visited the search URL of a form whose action is on another
\* site
C30_Witness_SearchUrlOffSite ==
  /\ fallbackSearchUrl /= Null
  /\ fallbackSearchUrl \in visited
  /\ ~isSameOriginOrSubdomain(baseUrl, fallbackSearchUrl)

(***************************************************************************)
(* Properties of the URLs collectSearchFormProducts loads.                 *)
(***************************************************************************)
\* this step records one attempt, and NewAttempt is that attempt
AttemptStep == Len(attempts') = Len(attempts) + 1
NewAttempt == attempts'[Len(attempts')]

\* the confirmed URL with the n-th parameter name set to the keyword
ParamUrl(n, kw) == SetSearchParam(confirmedUrl, ParamNames[n], kw)

\* the confirmed URL, then the parameter URLs that differ from it
DistinctUrls(kw) ==
  <<confirmedUrl>>
    \o SelectSeq([n \in 1..Len(ParamNames) |-> ParamUrl(n, kw)],
                 LAMBDA u : u /= confirmedUrl)

VisitStep == collectPc = "browse" /\ <<kwPos, urlPos>>' /= <<kwPos, urlPos>>

\* the page just loaded gave neither page text nor network text
NoTextSeen == lastVisit.pageText = <<>> /\ lastVisit.networkText = <<>>

\* neither a keyword nor a fallback keyword was passed
NothingToSearch ==
  /\ \A i \in 1..Len(collectSearchKeywords) : trim(collectSearchKeywords[i]) = <<>>
  /\ fallbackKeyword = <<>>

\* C32: a page load with empty page text and empty network text records
\* no attempt; a call without a recorded attempt returns no item, with
\* reason no_keywords when there was nothing to search and no_attempt_text
\* otherwise, and the oracle is not called.
C32_EmptyAttemptDroppedOracleSkipped ==
  /\ [][ VisitStep /\ NoTextSeen' => attempts' = attempts ]_vars
  /\ [][ VisitStep /\ ~NoTextSeen' => Len(attempts') = Len(attempts) + 1 ]_vars
  /\ [](attempts = <<>> => oracleCalls = 0 /\ parsedProducts = <<>>)
  /\ [](collectReturn /= Null /\ attempts = <<>> =>
          /\ collectReturn.items = <<>>
          /\ collectReturn.reason =
               IF NothingToSearch THEN "no_keywords" ELSE "no_attempt_text")
  /\ [](collectPc = "done" /\ attempts = <<>> => collectReturn /= Null)
  /\ [](NothingToSearch => attempts = <<>> /\ collectPc \in {"start", "done"})

\* every page of two keywords was loaded and none gave text: the call
\* returned no_attempt_text without asking the oracle
C32_Witness_AllPagesEmpty ==
  /\ collectPc = "done"
  /\ Len(collectKeywords) = 2
  /\ kwPos > Len(collectKeywords)
  /\ attempts = <<>>
  /\ collectReturn = [items |-> <<>>, reason |-> "no_attempt_text"]
  /\ oracleCalls = 0

(***************************************************************************)
(* Properties of the amount normalizePrice picks.                          *)
(***************************************************************************)
\* the numbers the expression of normalizePrice finds in a text
ParsedNumbers(value) ==
  { ToNumber(SelectSeq(AmountMatches(value, 1)[i], IsDigit)) :
      i \in 1..Len(AmountMatches(value, 1)) }

Largest(S) == CHOOSE n \in S : \A m \in S : m <= n

\* the amount of the claim: the largest number of 1000 or more, else the
\* largest number, else the empty string
PreferredAmount(value) ==
  LET all == ParsedNumbers(value)
      large == { n \in all : n >= 1000 }
  IN IF large /= {} THEN NumberToString(Largest(large))
     ELSE IF all /= {} THEN NumberToString(Largest(all))
     ELSE <<>>

\* C33: normalizePrice returns the largest parsed number that is at least
\* 1000 when there is one, otherwise the largest parsed number, and the
\* empty string when the text holds no number.
C33_LargestAmountPreferringThousands ==
  fetchPage /= Null =>
    /\ normalizePrice(fetchPage.rawListPrice) = PreferredAmount(fetchPage.rawListPrice)
    /\ normalizePrice(fetchPage.rawSalePrice) = PreferredAmount(fetchPage.rawSalePrice)
    /\ ReturnedWonPrices =>
         /\ fetchReturn.listPrice = formatPrice(PreferredAmount(fetchPage.rawListPrice))
         /\ fetchReturn.salePrice = formatPrice(PreferredAmount(fetchPage.rawSalePrice))

\* the list price element names 9,900 before 12,000 and the record holds
\* 12,000; the sale price element holds 9,900 and the record holds 9,900
C33_Witness_SecondAmountIsLargest ==
  /\ ReturnedWonPrices
  /\ ParsedNumbers(fetchPage.rawListPrice) = {9900, 12000}
  /\ fetchReturn.listPrice = TwelveThousandWon
  /\ fetchReturn.salePrice = <<"9", ",", "9", "0", "0", WonChar>>

(***************************************************************************)
(* Properties of the currency of the returned prices.                      *)
(***************************************************************************)
\* the price the spec gives a record whose currency is not the won
ForeignPrice(rawPrice) ==
  OrElse(extractCurrencyPrice(fetchReturn.priceLines), trim(rawPrice))

HasWonSuffix(price) == price /= <<>> /\ price[Len(price)] = WonChar

\* C34: listPrice and salePrice carry the won suffix only when the detected
\* currency is KRW; for every other detection result, the unknown (empty)
\* one included, the field is the first currency-qualified substring of
\* priceLines, else the raw text of the price element.
C34_WonSuffixOnlyForKRW ==
  FetchReturned /\ ~fetchFailed =>
    /\ HasWonSuffix(fetchReturn.listPrice) \/ HasWonSuffix(fetchReturn.salePrice)
         => fetchReturn.currencyHint = "KRW"
    /\ fetchReturn.currencyHint /= "KRW" =>
         /\ fetchReturn.listPrice = ForeignPrice(fetchPage.rawListPrice)
         /\ fetchReturn.salePrice = ForeignPrice(fetchPage.rawSalePrice)

\* no currency was detected on the page, and the record gives its price
\* with the won suffix
C34_Witness_UnknownCurrencyWonSuffix ==
  /\ FetchReturned
  /\ ~fetchFailed
  /\ fetchReturn.currencyHint = ""
  /\ fetchPage.rawListPrice = <<"1", "2", "0", "0", "0">>
  /\ fetchReturn.listPrice = TwelveThousandWon

(***************************************************************************)
(* Properties of the URL POST hands to the collector.                      *)
(***************************************************************************)
ProbeConfirmed == probeReturn /= Null /\ probeReturn.available = TRUE

\* C35: POST runs collectSearchFormProducts, and keeps a non-null
\* search_form_confirmed_url, only when the probe returned available = true.
C35_CollectOnlyAfterConfirmedProbe ==
  /\ collectPc /= "idle" => ProbeConfirmed
  /\ searchFormConfirmedUrl /= Null => ProbeConfirmed

\* the probe returned available = false, the collector ran on the URL of
\* its info, and POST keeps a confirmed URL
C35_Witness_CollectAfterFailedProbe ==
  /\ probeReturn /= Null
  /\ probeReturn.available = FALSE
  /\ collectPc = "done"
  /\ attempts /= <<>>
  /\ postPc = "confirm"
  /\ searchFormConfirmedUrl /= Null

(***************************************************************************)
(* Properties of the batch driver.                                         *)
(***************************************************************************)
ValidRow(i) == rows[i].brand /= <<>> /\ rows[i].product_name /= <<>>

\* the positions in `requests` of the requests sent for row i
RequestsOf(i) == { k \in 1..Len(requests) : requests[k].row = i }

RowSucceeded(i) == \E k \in RequestsOf(i) : requests[k].outcome = "ok"

\* the lines of the output CSV written for row i
OutputOf(i) == { k \in 1..Len(outputRows) : outputRows[k].seed_index = i }

\* C36: the batch driver sends at most MAX_RETRY + 1 requests for a valid
\* row and none after the first that succeeded; the row is marked ok if and
\* only if one request succeeded; the driver never goes back to an earlier
\* row, and every run ends with the CSV written and a line for every row.
C36_BoundedRetriesAndTermination ==
  /\ [](\A i \in 1..Len(rows) :
          /\ Cardinality(RequestsOf(i)) <= MAX_RETRY + 1
          /\ ~ValidRow(i) => RequestsOf(i) = {}
          /\ \A k \in RequestsOf(i) :
               requests[k].outcome = "ok" => \A j \in RequestsOf(i) : j <= k
          /\ \A k \in OutputOf(i) :
               /\ ValidRow(i) => (outputRows[k].status = "ok" <=> RowSucceeded(i))
               /\ ValidRow(i) => outputRows[k].status \in {"ok", "failed"}
               /\ ~ValidRow(i) => outputRows[k].status = "skipped"
               /\ outputRows[k].attempts = Cardinality(RequestsOf(i))
          /\ (i < rowIndex) = (OutputOf(i) /= {})
          /\ ValidRow(i) /\ i < rowIndex /\ ~RowSucceeded(i)
               => Cardinality(RequestsOf(i)) = MAX_RETRY + 1)
  /\ [][ rowIndex' \in {rowIndex, rowIndex + 1} ]_vars
  /\ [][ Len(requests') > Len(requests) =>
           requests'[Len(requests')].row = rowIndex ]_vars
  /\ <>[](batchPc = "done" /\ rowIndex = Len(rows) + 1)

\* the first row failed MAX_RETRY + 1 times and is marked failed; the second
\* row succeeded at its second attempt; the CSV is written
C36_Witness_FailedRowThenRetriedRow ==
  /\ batchPc = "done"
  /\ Len(rows) = 2
  /\ Cardinality(RequestsOf(1)) = MAX_RETRY + 1
  /\ ~RowSucceeded(1)
  /\ \E k \in OutputOf(1) : outputRows[k].status = "failed"
  /\ Cardinality(RequestsOf(2)) = 2
  /\ \E k \in OutputOf(2) : outputRows[k].status = "ok" /\ outputRows[k].attempts = 2

(***************************************************************************)
(* Properties of a probe that throws.                                      *)
(***************************************************************************)
\* C37: when a navigation or a page evaluation throws during a probe,
\* checkSearchFormAvailability returns {available: false, info: null} at
\* once: no keyword is probed after it, the second round is not started,
\* and the probe history is not returned.
C37_ThrowEndsProbeWithNullInfo ==
  /\ [](probeThrew =>
          /\ probePc = "done"
          /\ probeReturn = [available |-> FALSE, info |-> Null]
          /\ ~probeContextOpen)
  /\ [][ probeThrew' /\ ~probeThrew =>
           /\ probeLog' = probeLog
           /\ probeHistory' = probeHistory
           /\ kwIndex' = kwIndex ]_vars
  /\ [][ probePc = "done" =>
           /\ probePc' = "done"
           /\ probeLog' = probeLog
           /\ navigations' = navigations
           /\ probeReturn' = probeReturn ]_vars

\* the first keyword was probed without success, the probe of the second
\* one threw in round 1: the result carries no info, the history of the
\* first probe is lost and round 2 never ran
C37_Witness_ThrowAtSecondKeyword ==
  /\ probeThrew
  /\ probePc = "done"
  /\ Len(keywords) = 2
  /\ Len(probeLog) = 1
  /\ probeLog[1].round = 1
  /\ probeHistory /= <<>>
  /\ probeReturn.info = Null

(***************************************************************************)
(* Properties of the links of the page with the search form.               *)
(***************************************************************************)
\* the URLs of the links of the page being read
LinkUrlsOfPage == { normalizeUrl(baseUrl, hrefs[i].href) : i \in 1..Len(hrefs) }

\* C38: when the search-form short-circuit fires on the start page, none of
\* the links of the start page is scored or enqueued; every entry of
\* productCandidates of that crawl comes from a link of the search-result page.
C38_ShortCircuitSkipsStartPageLinks ==
  [][ /\ ShortCircuitFires =>
           /\ current.depth = 0
           /\ productCandidates = <<>> /\ productCandidates' = <<>>
           /\ scoresSeen = {} /\ scoresSeen' = {}
           /\ searchCandidates' = searchCandidates
           /\ addedCategoryUrls' = addedCategoryUrls
           /\ \A i \in 1..Len(queue') : queue'[i].url = fallbackSearchUrl'
      /\ (searchOnlyMode /\ << productCandidates, scoresSeen >>'
                              /= << productCandidates, scoresSeen >>) =>
           /\ current.url = fallbackSearchUrl
           /\ CandidateUrls(productCandidates') \subseteq LinkUrlsOfPage
           /\ { s.url : s \in scoresSeen' } \subseteq LinkUrlsOfPage ]_vars

\* the start page exposed links and a search form: after the short-circuit
\* the queue holds the search URL alone and no link has been scored
C38_Witness_StartPageLinksUnscored ==
  /\ crawlPc = "loop"
  /\ searchOnlyMode
  /\ queue = << [url |-> fallbackSearchUrl, depth |-> 1] >>
  /\ linksLeft < MaxSiteLinks
  /\ scoresSeen = {}
  /\ productCandidates = <<>>

(***************************************************************************)
(* Properties of keywordUsed.                                              *)
(***************************************************************************)
\* the first keyword of the call: the first non-blank search keyword,
\* trimmed, or the trimmed fallback keyword when there is none
FirstKeyword ==
  LET given == SelectSeq(collectSearchKeywords, LAMBDA k : trim(k) /= <<>>)
  IN IF given /= <<>> THEN trim(given[1]) ELSE trim(fallbackKeyword)

\* the attempts recorded for the first keyword
FirstKeywordAttempts ==
  { j \in 1..Len(attempts) : attempts[j].keyword = FirstKeyword }

AllItemsUseFirstKeyword ==
  collectReturn /= Null =>
    \A i \in 1..Len(collectReturn.items) :
      collectReturn.items[i].keywordUsed = FirstKeyword

\* C39: every returned item has keywordUsed equal to the first search
\* keyword (the fallback keyword when the list is empty), and the
\* confirmed-URL resolution of POST always selects the first recorded
\* attempt of the first keyword.
C39_ResolutionAlwaysPicksFirstKeywordAttempt ==
  /\ AllItemsUseFirstKeyword
  /\ (UrlConfirmed /\ ReturnedItems /= <<>>) =>
       /\ FirstKeywordAttempts /= {}
       /\ \E j \in FirstKeywordAttempts :
            /\ \A k \in FirstKeywordAttempts : j <= k
            /\ searchFormConfirmedUrl = attempts[j].url

\* C39, amended: the resolution selects the first recorded attempt of the
\* first keyword when an item has a url and the first keyword recorded an
\* attempt, and leaves the URL as it was otherwise.
C39_ResolutionPicksFirstKeywordAttemptIfAny ==
  /\ AllItemsUseFirstKeyword
  /\ UrlConfirmed =>
       IF ItemsWithUrl /= <<>> /\ FirstKeywordAttempts /= {}
         THEN \E j \in FirstKeywordAttempts :
                /\ \A k \in FirstKeywordAttempts : j <= k
                /\ searchFormConfirmedUrl = attempts[j].url
         ELSE searchFormConfirmedUrl = confirmedUrl

\* only the pages of the second keyword gave text: the items carry the
\* first keyword, no attempt carries it, and the URL stays as it was
C39_Witness_FirstKeywordWithoutAttempt ==
  /\ UrlConfirmed
  /\ ItemsWithUrl /= <<>>
  /\ ItemsWithUrl[1].keywordUsed = FirstKeyword
  /\ attempts /= <<>>
  /\ FirstKeywordAttempts = {}
  /\ searchFormConfirmedUrl = confirmedUrl

(***************************************************************************)
(* Properties of the response listeners of the collector.                  *)
(***************************************************************************)
\* the bodies that appear in a joined network text
BodiesIn(networkText) ==
  { n \in 1..Len(delivered) :
      \E i \in 1..Len(networkText) : networkText[i] = BodyOf(n) }

\* C40: the bodies captured while the URL of one attempt is loaded never
\* appear in the networkText of another attempt, also when a handler of an
\* earlier attempt ends after the next attempt has started; the listener of
\* an attempt is removed on every way out of that attempt.
C40_ChunksStayWithTheirAttempt ==
  /\ [](\A i \in 1..Len(capAttempts) :
          \A n \in BodiesIn(capAttempts[i].networkText) :
            delivered[n] = capAttempts[i].attempt)
  /\ [](\A k \in 1..Len(networkChunks) : \A i \in 1..Len(networkChunks[k]) :
          \E n \in 1..Len(delivered) :
            networkChunks[k][i] = <<BodyOf(n)>> /\ delivered[n] = k)
  /\ [](/\ listeners \subseteq {capIndex}
        /\ capPc = "loading" => listeners = {capIndex}
        /\ capPc \in {"closing", "done"} => listeners = {})
  /\ [][ capPc = "loading" /\ (capIndex' /= capIndex \/ capPc' /= capPc)
           => capIndex \notin listeners' ]_vars

\* a handler of the first attempt pushed its chunk after the second attempt
\* had started: the chunk is in the array of the first attempt, in no
\* network text, and the second attempt was recorded with its own body
C40_Witness_LateHandlerOfFirstAttempt ==
  /\ Len(capAttempts) >= 2
  /\ capAttempts[1].attempt = 1
  /\ capAttempts[2].attempt = 2
  /\ delivered = <<1, 2>>
  /\ networkChunks[1] = << <<BodyOf(1)>> >>
  /\ capAttempts[1].networkText = <<>>
  /\ capAttempts[2].networkText = <<BodyOf(2)>>

====
